---------------------------- MODULE Spec2Model ----------------------------
(***************************************************************************)
(* stream-prelude: a 4-byte marker, a 4-byte big-endian length and a JSON  *)
(* payload prepended to a byte stream.                                     *)
(*                                                                         *)
(* SpecPush models parsePreludeTransform (the push-mode state machine).    *)
(* SpecPull models parsePrelude driving readExactly over a Node Readable,  *)
(* and the remainder stream it hands out.                                  *)
(* SpecCodec models the buffer functions encodePrelude, getPreludeSize and *)
(* decodePrelude, and the prelude frameStream writes.                      *)
(* SpecDecoders takes the same bytes through the transform, parsePrelude   *)
(* and decodePrelude.                                                      *)
(* Bytes are naturals 0..255; a buffer is a sequence of bytes.             *)
(***************************************************************************)
EXTENDS Integers, Sequences, FiniteSets, TLC

VARIABLES
    input,        \* the bytes the producer is going to deliver, in order
    opts,         \* the options of the call: requirePrelude, autoPause, onHeaders
    \* ---- parsePreludeTransform (closure state and what it did)
    written,      \* number of bytes of input written to the transform so far
    stage,        \* 'magic' | 'length' | 'json' | 'body'
    needed,       \* bytes required to complete the stage
    buffer,       \* accumulation buffer
    jsonLength,   \* declared payload length
    events,       \* what the transform did, in order: emit('prelude') and push(),
                  \* consecutive pushes recorded as one push of their bytes
    tError,       \* the error handed to cb(error), "none" when there is none
    tEnded,       \* the writable side was ended and the transform finished
    downRead,     \* how many of the bytes pushed the downstream has read
    ackPending,   \* the callback of the last write is held back until _read
    \* ---- the source Readable handed to parsePrelude
    sent,             \* number of bytes of input the producer has pushed so far
    srcBuf,           \* the stream's internal buffer (readableLength = Len(srcBuf))
    srcEnded,         \* the producer pushed EOF
    srcEndScheduled,  \* a read found the ended stream empty: 'end' is on its way
    srcEndEmitted,    \* readableEnded: 'end' was emitted
    srcFlowing,       \* readableFlowing: "null" | "flowing" | "paused"
    srcDataListeners, \* listenerCount('data') of other consumers
    srcDestroyed,     \* destroyed
    srcError,         \* the error the stream was destroyed with, "none" without
    srcErrorPending,  \* 'error' is on its way to the listeners
    readablePending,  \* 'readable' is on its way to the listeners
    listeners,        \* the events a wait of readExactly has a listener attached for
    \* ---- one call of parsePrelude
    pc,           \* "idle" | "waiting" (suspended in readExactly, listeners attached)
                  \* | "resume" (woken by 'readable') | "resolved" | "rejected"
                  \* | "framed" (frameStream was called on the source instead)
    field,        \* which readExactly is running: "magic" | "length" | "json",
                  \* or "probe" for the one of isFramedStream
    collected,    \* readExactly: the bytes of buffers[], collected = Len(collected)
    receivedMagic,\* parsePrelude's receivedMagic, <<>> before the first read returned
    pJsonLength,  \* parsePrelude's jsonLength
    headers,      \* the headers the promise resolved with
    error,        \* the error the promise rejected with
    remainder,    \* "none" | "source" (the source itself) | "relay" (a PassThrough)
                  \* | "framed" (the PassThrough frameStream returned)
                  \* | "framing" (the same, the source not piped into it yet)
    observed,     \* the calls of opts.onHeaders so far: what it was given and saw
    probe,        \* isFramedStream on the source: "none" (not called) | "pending"
                  \* | "true" | "false" (what its promise resolved with)
                  \* | "rejected" (its promise rejected)
    relayBuf,     \* bytes written to the relay and not yet read from it
    relayEnded,   \* the pipe ended the relay
    out,          \* the bytes the caller has read from the remainder
    remDone,      \* the caller saw the remainder end
    relayFlowing, \* readableFlowing of the relay: "null" | "flowing"
    remListener,  \* the caller attached a 'data' listener to the remainder
    remError,     \* the error the remainder failed with, "none" when it did not
    \* ---- the buffer functions and the arguments of the encoding calls
    encHeaders,   \* the headers argument of encodePrelude, getPreludeSize, frameStream
    encOpts,      \* their opts argument: magic, version, maxJsonBytes
    source,       \* the value given as source to parsePrelude and isFramedStream
    magicOpt,     \* opts.magic of the parsePrelude, isFramedStream and
                  \* parsePreludeTransform calls
    encoded,      \* what encodePrelude(encHeaders, encOpts) threw or returned
    sized,        \* what getPreludeSize(encHeaders, encOpts) threw or returned
    decBuffer,    \* the buffer decodePrelude was called with
    decoded,      \* what decodePrelude(decBuffer, encOpts) threw or returned
    frameError    \* what frameStream(source, encHeaders, encOpts) threw, "none" if nothing

pushVars == <<written, stage, needed, buffer, jsonLength, events, tError, tEnded,
              downRead, ackPending>>
srcVars == <<sent, srcBuf, srcEnded, srcEndScheduled, srcEndEmitted, srcFlowing,
             srcDataListeners, srcDestroyed, srcError, srcErrorPending, readablePending, listeners>>
parseVars == <<pc, field, collected, receivedMagic, pJsonLength, headers, error, remainder,
               observed, probe>>
remVars == <<relayBuf, relayEnded, out, remDone, relayFlowing, remListener, remError>>
pullVars == <<srcVars, parseVars, remVars>>
argVars == <<encHeaders, encOpts, source, magicOpt>>
codecVars == <<encoded, sized, decBuffer, decoded>>
vars == <<input, opts, pushVars, pullVars, argVars, codecVars, frameError>>

-----------------------------------------------------------------------------
(* Program constants *)

MAGIC_LENGTH == 4
LENGTH_BYTES == 4
DEFAULT_MAX_JSON_BYTES == 16384

\* 'PRE1', the default marker, and 'META', a second configured marker
DEFAULT_MAGIC == <<80, 82, 69, 49>>
META_MAGIC == <<77, 69, 84, 65>>

(* Bounds of the model *)

\* opts.maxJsonBytes of the calls explored
MaxJsonBytes == 7
\* the longest body that follows a frame
MaxBody == 3
\* readableHighWaterMark of the transform, in bytes
HighWaterMark == 2
\* the larger of the two opts.maxJsonBytes the encoding calls are explored with
MaxPayloadBytes == 16
\* writableHighWaterMark of the PassThrough frameStream returns, in bytes
FrameHighWaterMark == 16

-----------------------------------------------------------------------------
(* Buffers *)

Slice(b, from, to) == SubSeq(b, from + 1, to)     \* Buffer.subarray(from, to)
SliceFrom(b, from) == SubSeq(b, from + 1, Len(b)) \* Buffer.subarray(from)

\* Buffer.readUInt32BE(off)
readUInt32BE(b, off) ==
    b[off + 1] * 16777216 + b[off + 2] * 65536 + b[off + 3] * 256 + b[off + 4]

\* the 4 bytes writeUInt32BE(n) stores
UInt32BE(n) ==
    << (n \div 16777216) % 256, (n \div 65536) % 256, (n \div 256) % 256, n % 256 >>

\* only the first marker of the list compared
MagicsFirst(magics, slice) == slice = magics[1]

\* magics.some((m) => slice.equals(m))
MagicsSome(magics, slice) == \E i \in 1..Len(magics) : slice = magics[i]

\* assertMagicList(opts.magic) of the calls explored: ['PRE1', 'META']
magics == <<DEFAULT_MAGIC, META_MAGIC>>

\* new PreludeJsonParseError('JSON payload must be non-empty'): the one
\* PreludeJsonParseError that does not carry the default message
NonEmptyError == "PreludeJsonParseError: JSON payload must be non-empty"

\* a limit that lets one byte more through
validateJsonLengthOneMore(length, max) ==
    IF length > max + 1 THEN "PreludeJsonTooLargeError"
    ELSE IF length = 0 THEN NonEmptyError
    ELSE "ok"

\* a length of zero let through
validateJsonLengthZeroOk(length, max) ==
    IF length > max THEN "PreludeJsonTooLargeError"
    ELSE "ok"

\* validateJsonLength: the error it throws, "ok" when it returns
validateJsonLength(length, max) ==
    IF length > max THEN "PreludeJsonTooLargeError"
    ELSE IF length = 0 THEN NonEmptyError
    ELSE "ok"

-----------------------------------------------------------------------------
(* JavaScript values, as far as the headers and payloads explored need     *)
(* them.  A string is its sequence of code points (below U+10000); a       *)
(* finite number is kept in tenths (15 is 1.5), which covers the integers  *)
(* and one decimal; an object is the sequence of its own enumerable        *)
(* members <<key, value>> in insertion order.                              *)

NoValue == [kind |-> "none"]

Str(cs) == [kind |-> "string", chars |-> cs]
Num(tenths) == [kind |-> "number", special |-> "finite", tenths |-> tenths]
Whole(n) == Num(10 * n)
NonFinite(which) == [kind |-> "number", special |-> which, tenths |-> 0]
Bool(b) == [kind |-> "boolean", value |-> b]
Null == [kind |-> "null"]
Undefined == [kind |-> "undefined"]
Arr(items) == [kind |-> "array", items |-> items]
Obj(members) == [kind |-> "object", members |-> members]
\* an object whose prototype is not Object.prototype and that has no own
\* enumerable property, such as new Map()
Exotic == [kind |-> "exotic"]

\* Buffer.from(string, 'utf8')
RECURSIVE Utf8Encode(_)
Utf8Encode(cs) ==
    IF cs = <<>> THEN <<>>
    ELSE LET c == Head(cs)
             b == IF c < 128 THEN <<c>>
                  ELSE IF c < 2048 THEN <<192 + (c \div 64), 128 + (c % 64)>>
                  ELSE <<224 + (c \div 4096), 128 + ((c \div 64) % 64), 128 + (c % 64)>>
         IN  b \o Utf8Encode(Tail(cs))

IsContinuation(bs, i) == i <= Len(bs) /\ bs[i] \in 128..191

\* buffer.toString('utf8'): a malformed byte becomes U+FFFD
RECURSIVE Utf8Decode(_)
Utf8Decode(bs) ==
    IF bs = <<>> THEN <<>>
    ELSE LET b == bs[1] IN
         IF b < 128 THEN <<b>> \o Utf8Decode(Tail(bs))
         ELSE IF b \in 194..223 /\ IsContinuation(bs, 2)
              THEN <<(b - 192) * 64 + (bs[2] - 128)>> \o Utf8Decode(SubSeq(bs, 3, Len(bs)))
         ELSE IF b \in 224..239 /\ IsContinuation(bs, 2) /\ IsContinuation(bs, 3)
              THEN <<(b - 224) * 4096 + (bs[2] - 128) * 64 + (bs[3] - 128)>>
                       \o Utf8Decode(SubSeq(bs, 4, Len(bs)))
         ELSE <<65533>> \o Utf8Decode(Tail(bs))

\* string.length in place of the byte length
stringLength(cs) == Len(cs)

\* Buffer.byteLength(string, 'utf8')
RECURSIVE byteLength(_)
byteLength(cs) ==
    IF cs = <<>> THEN 0
    ELSE (IF Head(cs) < 128 THEN 1 ELSE IF Head(cs) < 2048 THEN 2 ELSE 3)
             + byteLength(Tail(cs))

-----------------------------------------------------------------------------
(* JSON.parse(text): objects, arrays, strings with the escapes \" \\ \/,    *)
(* numbers with at most one decimal and no exponent, true, false, null,    *)
(* white space between tokens.  A duplicate key keeps its first place and  *)
(* takes the last value.                                                   *)

IsDigit(c) == c \in 48..57
IsWs(c) == c \in {9, 10, 13, 32}

ParseFail == [ok |-> FALSE, value |-> NoValue, next |-> 0]
ParseOk(v, n) == [ok |-> TRUE, value |-> v, next |-> n]

RECURSIVE SkipWs(_, _)
SkipWs(t, i) == IF i <= Len(t) /\ IsWs(t[i]) THEN SkipWs(t, i + 1) ELSE i

Matches(t, i, lit) ==
    i + Len(lit) - 1 <= Len(t) /\ SubSeq(t, i, i + Len(lit) - 1) = lit

\* the characters of a string literal from position j on, the opening quote
\* already read
RECURSIVE StringBody(_, _, _)
StringBody(t, j, acc) ==
    IF j > Len(t) THEN ParseFail
    ELSE IF t[j] = 34 THEN ParseOk(Str(acc), j + 1)
    ELSE IF t[j] = 92
         THEN IF j + 1 <= Len(t) /\ t[j + 1] \in {34, 92, 47}
                 THEN StringBody(t, j + 2, Append(acc, t[j + 1]))
                 ELSE ParseFail
    ELSE IF t[j] < 32 THEN ParseFail
    ELSE StringBody(t, j + 1, Append(acc, t[j]))

RECURSIVE DigitsEnd(_, _)
DigitsEnd(t, j) == IF j <= Len(t) /\ IsDigit(t[j]) THEN DigitsEnd(t, j + 1) ELSE j

\* the value of the digits t[a], ..., t[b - 1]
RECURSIVE DigitsValue(_, _, _)
DigitsValue(t, a, b) ==
    IF a >= b THEN 0 ELSE 10 * DigitsValue(t, a, b - 1) + (t[b - 1] - 48)

\* the number whose digits are t[a], ..., t[b - 1] and whose rest starts at
\* position b; c is where its decimals end
NumberFrom(t, neg, a, b, c) ==
    IF b = a THEN ParseFail                                  \* no digit
    ELSE IF b > a + 1 /\ t[a] = 48 THEN ParseFail            \* leading zero
    ELSE IF c # b /\ c # b + 2 THEN ParseFail                \* "1." ; more decimals
    ELSE IF c <= Len(t) /\ t[c] \in {69, 101} THEN ParseFail \* exponent
    ELSE ParseOk(Num((IF neg THEN 0 - 1 ELSE 1)
                       * (10 * DigitsValue(t, a, b) + (IF c = b THEN 0 ELSE t[b + 1] - 48))),
                 c)

\* the digits before the decimal point end before position b
NumberDigits(t, neg, a, b) ==
    NumberFrom(t, neg, a, b,
               IF b <= Len(t) /\ t[b] = 46 THEN DigitsEnd(t, b + 1) ELSE b)

NumberAt(t, neg, a) == NumberDigits(t, neg, a, DigitsEnd(t, a))

ParseNumber(t, i) == NumberAt(t, t[i] = 45, IF t[i] = 45 THEN i + 1 ELSE i)

\* obj[key] = value on the members parsed so far
ObjectSet(members, key, value) ==
    IF \E n \in 1..Len(members) : members[n][1] = key
       THEN [n \in 1..Len(members) |->
                IF members[n][1] = key THEN <<key, value>> ELSE members[n]]
       ELSE Append(members, <<key, value>>)

RECURSIVE ParseValue(_, _)
RECURSIVE ParseItems(_, _, _)
RECURSIVE ParseMembers(_, _, _)

\* after the elements acc of an array: "," and another element, or "]"
ItemsAfter(t, acc, j) ==
    IF j > Len(t) THEN ParseFail
    ELSE IF t[j] = 44 THEN ParseItems(t, j + 1, acc)
    ELSE IF t[j] = 93 THEN ParseOk(Arr(acc), j + 1)
    ELSE ParseFail

\* r is what parsing the next element of an array gave
ItemParsed(t, acc, r) ==
    IF ~r.ok THEN ParseFail
    ELSE ItemsAfter(t, Append(acc, r.value), SkipWs(t, r.next))

\* the elements of an array from position i on, "[" and acc already read
ParseItems(t, i, acc) == ItemParsed(t, acc, ParseValue(t, i))

\* after the members of an object: "," and another member, or "}"
MembersAfter(t, members, j) ==
    IF j > Len(t) THEN ParseFail
    ELSE IF t[j] = 44 THEN ParseMembers(t, j + 1, members)
    ELSE IF t[j] = 125 THEN ParseOk(Obj(members), j + 1)
    ELSE ParseFail

\* r is what parsing the value of the member key gave
MemberParsed(t, acc, key, r) ==
    IF ~r.ok THEN ParseFail
    ELSE MembersAfter(t, ObjectSet(acc, key, r.value), SkipWs(t, r.next))

\* the ":" at position c and the value of the member key
MemberValue(t, acc, key, c) ==
    IF c <= Len(t) /\ t[c] = 58 THEN MemberParsed(t, acc, key, ParseValue(t, c + 1))
    ELSE ParseFail

\* k is what parsing the key of a member gave
MemberKey(t, acc, k) ==
    IF ~k.ok THEN ParseFail
    ELSE MemberValue(t, acc, k.value.chars, SkipWs(t, k.next))

\* a member whose key starts at position k0
MemberAt(t, acc, k0) ==
    IF k0 <= Len(t) /\ t[k0] = 34 THEN MemberKey(t, acc, StringBody(t, k0 + 1, <<>>))
    ELSE ParseFail

\* the members of an object from position i on, "{" and acc already read
ParseMembers(t, i, acc) == MemberAt(t, acc, SkipWs(t, i))

\* the object or array that was opened before position j
ObjectFrom(t, j) ==
    IF j <= Len(t) /\ t[j] = 125 THEN ParseOk(Obj(<<>>), j + 1)
    ELSE ParseMembers(t, j, <<>>)

ArrayFrom(t, j) ==
    IF j <= Len(t) /\ t[j] = 93 THEN ParseOk(Arr(<<>>), j + 1)
    ELSE ParseItems(t, j, <<>>)

\* the value whose first character is at position i
ValueAt(t, i) ==
    IF i > Len(t) THEN ParseFail
    ELSE IF t[i] = 123 THEN ObjectFrom(t, SkipWs(t, i + 1))
    ELSE IF t[i] = 91 THEN ArrayFrom(t, SkipWs(t, i + 1))
    ELSE IF t[i] = 34 THEN StringBody(t, i + 1, <<>>)
    ELSE IF t[i] = 45 \/ IsDigit(t[i]) THEN ParseNumber(t, i)
    ELSE IF Matches(t, i, <<116, 114, 117, 101>>) THEN ParseOk(Bool(TRUE), i + 4)
    ELSE IF Matches(t, i, <<102, 97, 108, 115, 101>>) THEN ParseOk(Bool(FALSE), i + 5)
    ELSE IF Matches(t, i, <<110, 117, 108, 108>>) THEN ParseOk(Null, i + 4)
    ELSE ParseFail

ParseValue(t, i0) == ValueAt(t, SkipWs(t, i0))

\* r is what parsing one value from the start of the text gave: nothing
\* but white space may follow it
WholeText(t, r) ==
    IF r.ok /\ SkipWs(t, r.next) = Len(t) + 1
       THEN [ok |-> TRUE, value |-> r.value]
       ELSE [ok |-> FALSE, value |-> NoValue]

ParseText(t) == WholeText(t, ParseValue(t, 1))

\* JSON.parse(bytes.toString('utf8')): ok is FALSE when it throws.  The
\* text is decoded once, before it is parsed.
JsonParse(bytes) ==
    CHOOSE parsed \in { ParseText(t) : t \in { Utf8Decode(bytes) } } : TRUE

\* typeof value === 'object' && value !== null, without the prototype test
isPlainObjectAnyPrototype(value) == value.kind \in {"object", "array"}

\* isPlainObject: of the values modelled, only Obj(...) has Object.prototype
isPlainObject(value) == value.kind = "object"

\* the empty header {} of the fallback
EmptyHeaders == Obj(<<>>)

-----------------------------------------------------------------------------
(* JSON.stringify(value) *)

RECURSIVE Digits(_)
Digits(n) == IF n < 10 THEN <<48 + n>> ELSE Digits(n \div 10) \o <<48 + (n % 10)>>

\* Number.prototype.toString of a finite number kept in tenths
NumberToString(tenths) ==
    LET a == IF tenths < 0 THEN 0 - tenths ELSE tenths
    IN  (IF tenths < 0 THEN <<45>> ELSE <<>>)
            \o Digits(a \div 10)
            \o (IF a % 10 = 0 THEN <<>> ELSE <<46, 48 + (a % 10)>>)

RECURSIVE QuoteChars(_)
QuoteChars(cs) ==
    IF cs = <<>> THEN <<>>
    ELSE (IF Head(cs) \in {34, 92} THEN <<92, Head(cs)>> ELSE <<Head(cs)>>)
             \o QuoteChars(Tail(cs))

Quote(cs) == <<34>> \o QuoteChars(cs) \o <<34>>

\* the parts joined with ","
RECURSIVE Join(_)
Join(parts) ==
    IF parts = <<>> THEN <<>>
    ELSE IF Len(parts) = 1 THEN parts[1]
    ELSE parts[1] \o <<44>> \o Join(Tail(parts))

RECURSIVE JSONStringify(_)
RECURSIVE StringifyItems(_)
RECURSIVE StringifyMembers(_)

\* an undefined element of an array is written as null
StringifyItems(items) ==
    IF items = <<>> THEN <<>>
    ELSE <<IF Head(items).kind = "undefined" THEN <<110, 117, 108, 108>>
           ELSE JSONStringify(Head(items))>> \o StringifyItems(Tail(items))

\* a member whose value is undefined is left out
StringifyMembers(members) ==
    IF members = <<>> THEN <<>>
    ELSE (IF Head(members)[2].kind = "undefined" THEN <<>>
          ELSE <<Quote(Head(members)[1]) \o <<58>> \o JSONStringify(Head(members)[2])>>)
             \o StringifyMembers(Tail(members))

JSONStringify(v) ==
    CASE v.kind = "string" -> Quote(v.chars)
      [] v.kind = "number" ->
            IF v.special = "finite" THEN NumberToString(v.tenths)
            ELSE <<110, 117, 108, 108>>                   \* NaN, Infinity: null
      [] v.kind = "boolean" ->
            IF v.value THEN <<116, 114, 117, 101>> ELSE <<102, 97, 108, 115, 101>>
      [] v.kind = "null" -> <<110, 117, 108, 108>>
      [] v.kind = "array" -> <<91>> \o Join(StringifyItems(v.items)) \o <<93>>
      [] v.kind = "object" -> <<123>> \o Join(StringifyMembers(v.members)) \o <<125>>
      [] v.kind = "exotic" -> <<123, 125>>

-----------------------------------------------------------------------------
(* decodePrelude(buffer, opts): the error it throws ("none" when it         *)
(* returns), the headers and the offset it returns.                        *)

DecodeFail(e) == [error |-> e, headers |-> NoValue, offset |-> 0]

\* opts.x ?? d
Nullish(v, d) == IF v.kind \in {"undefined", "null"} THEN d ELSE v

\* a whole number of JavaScript as a natural
IntegerOf(v) == v.tenths \div 10

assertMagic(magic) ==
    LET buf == Utf8Encode(magic.chars) IN
    IF Len(buf) # MAGIC_LENGTH
       THEN [error |-> "TypeError: magic must be exactly 4 bytes", buffer |-> <<>>]
       ELSE [error |-> "none", buffer |-> buf]

\* assertMagicList(opts.magic): the error it throws, the Buffer[] it returns
assertMagicList(magic) ==
    LET items == IF magic.kind = "undefined" THEN <<Str(DEFAULT_MAGIC)>>
                 ELSE IF magic.kind = "array" THEN magic.items
                 ELSE <<magic>>
        mapped == [n \in 1..Len(items) |-> assertMagic(items[n])]
    IN  IF \E n \in 1..Len(items) : mapped[n].error # "none"
           THEN [error |-> "TypeError: magic must be exactly 4 bytes", list |-> <<>>]
           ELSE [error |-> "none", list |-> [n \in 1..Len(items) |-> mapped[n].buffer]]

\* the marker compared before the length of the buffer is looked at
decodeBufferMagicFirst(ms, max, buf) ==
    IF Len(buf) < MAGIC_LENGTH THEN DecodeFail("PreludeTruncatedError")
    ELSE IF ~MagicsSome(ms, Slice(buf, 0, MAGIC_LENGTH))
         THEN DecodeFail("PreludeMagicMismatchError")
    ELSE IF Len(buf) < MAGIC_LENGTH + LENGTH_BYTES THEN DecodeFail("PreludeTruncatedError")
    ELSE LET len == readUInt32BE(buf, MAGIC_LENGTH)
             start == MAGIC_LENGTH + LENGTH_BYTES
             end == start + len
             parsed == JsonParse(Slice(buf, start, end))
         IN  IF validateJsonLength(len, max) # "ok"
                THEN DecodeFail(validateJsonLength(len, max))
             ELSE IF Len(buf) < end THEN DecodeFail("PreludeTruncatedError")
             ELSE IF ~parsed.ok THEN DecodeFail("PreludeJsonParseError")
             ELSE IF ~isPlainObject(parsed.value) THEN DecodeFail("PreludeInvalidTypeError")
             ELSE [error |-> "none", headers |-> parsed.value, offset |-> end]

\* the body of decodePrelude once magics and maxJsonBytes are known
decodeBuffer(ms, max, buf) ==
    IF Len(buf) < MAGIC_LENGTH + LENGTH_BYTES THEN DecodeFail("PreludeTruncatedError")
    ELSE IF ~MagicsSome(ms, Slice(buf, 0, MAGIC_LENGTH))
         THEN DecodeFail("PreludeMagicMismatchError")
    ELSE LET len == readUInt32BE(buf, MAGIC_LENGTH)
             start == MAGIC_LENGTH + LENGTH_BYTES
             end == start + len
             parsed == JsonParse(Slice(buf, start, end))
         IN  IF validateJsonLength(len, max) # "ok"
                THEN DecodeFail(validateJsonLength(len, max))
             ELSE IF Len(buf) < end THEN DecodeFail("PreludeTruncatedError")
             ELSE IF ~parsed.ok THEN DecodeFail("PreludeJsonParseError")
             ELSE IF ~isPlainObject(parsed.value) THEN DecodeFail("PreludeInvalidTypeError")
             ELSE [error |-> "none", headers |-> parsed.value, offset |-> end]

\* decodePrelude(buf, { magic: ['PRE1', 'META'], maxJsonBytes: max })
decodePrelude(buf, max) == decodeBuffer(magics, max, buf)

\* decodePrelude(buf, o) for any opts o
decodePreludeOpts(buf, o) ==
    LET ms == assertMagicList(o.magic)
        maxJsonBytes == Nullish(o.maxJsonBytes, Whole(DEFAULT_MAX_JSON_BYTES))
    IN  IF ms.error # "none" THEN DecodeFail(ms.error)
        ELSE decodeBuffer(ms.list, IntegerOf(maxJsonBytes), buf)

-----------------------------------------------------------------------------
(* validateHeaders, encodePrelude, getPreludeSize and the prelude of       *)
(* frameStream.  An error is the name and the message of what is thrown,   *)
(* without the path a message may carry.                                   *)

\* the first result of the sequence that is not "ok"
RECURSIVE FirstError(_)
FirstError(results) ==
    IF results = <<>> THEN "ok"
    ELSE IF Head(results) # "ok" THEN Head(results)
    ELSE FirstError(Tail(results))

RECURSIVE assertSerializable(_)
assertSerializable(value) ==
    IF value.kind \in {"string", "number", "boolean", "null"} THEN "ok"
    ELSE IF value.kind = "array"
         THEN FirstError([n \in 1..Len(value.items) |-> assertSerializable(value.items[n])])
    ELSE IF isPlainObject(value)
         THEN FirstError([n \in 1..Len(value.members) |->
                             assertSerializable(value.members[n][2])])
    ELSE "TypeError: contains a non-serializable value"

HasOwn(obj, key) == \E n \in 1..Len(obj.members) : obj.members[n][1] = key

\* the key "v"
KeyV == <<118>>

validateHeaders(h) ==
    IF ~isPlainObject(h) THEN "TypeError: prelude must be a plain object"
    ELSE IF HasOwn(h, KeyV) THEN "TypeError: prelude must not declare the reserved key v"
    ELSE FirstError([n \in 1..Len(h.members) |->
                        IF h.members[n][2].kind = "undefined"
                           THEN "TypeError: prelude entry is undefined"
                           ELSE assertSerializable(h.members[n][2])])

\* { ...target, ...source }: every member of source set on target
RECURSIVE Spread(_, _)
Spread(target, members) ==
    IF members = <<>> THEN target
    ELSE Spread(ObjectSet(target, Head(members)[1], Head(members)[2]), Tail(members))

\* { v: version, ...headers }
Payload(version, h) == Obj(Spread(<< <<KeyV, version>> >>, h.members))

\* a buffer allocated one byte too long
makePreludeBufferTooLong(magic, json) == magic \o UInt32BE(Len(json)) \o json \o <<0>>

makePreludeBuffer(magic, json) == magic \o UInt32BE(Len(json)) \o json

EncodeFail(e) == [error |-> e, buffer |-> <<>>]

encodePrelude(h, o) ==
    LET ms == assertMagicList(o.magic)
        version == Nullish(o.version, Whole(1))
        maxJsonBytes == Nullish(o.maxJsonBytes, Whole(DEFAULT_MAX_JSON_BYTES))
        jsonString == JSONStringify(Payload(version, h))
        jsonBuffer == Utf8Encode(jsonString)
        checked == validateJsonLength(Len(jsonBuffer), IntegerOf(maxJsonBytes))
    IN  IF ms.error # "none" THEN EncodeFail(ms.error)
        ELSE IF validateHeaders(h) # "ok" THEN EncodeFail(validateHeaders(h))
        ELSE IF checked # "ok" THEN EncodeFail(checked)
        ELSE [error |-> "none", buffer |-> makePreludeBuffer(ms.list[1], jsonBuffer)]

SizeFail(e) == [error |-> e, size |-> 0]

getPreludeSize(h, o) ==
    LET ms == assertMagicList(o.magic)
        version == Nullish(o.version, Whole(1))
        maxJsonBytes == Nullish(o.maxJsonBytes, Whole(DEFAULT_MAX_JSON_BYTES))
        jsonString == JSONStringify(Payload(version, h))
        jsonLength0 == byteLength(jsonString)
        checked == validateJsonLength(jsonLength0, IntegerOf(maxJsonBytes))
    IN  IF ms.error # "none" THEN SizeFail(ms.error)
        ELSE IF validateHeaders(h) # "ok" THEN SizeFail(validateHeaders(h))
        ELSE IF checked # "ok" THEN SizeFail(checked)
        ELSE [error |-> "none", size |-> Len(ms.list[1]) + LENGTH_BYTES + jsonLength0]

\* frameStream up to makePreludeBuffer: what it throws, the prelude it makes
framePrelude(h, o) ==
    LET ms == assertMagicList(o.magic)
        version == Nullish(o.version, Whole(1))
        maxJsonBytes == Nullish(o.maxJsonBytes, Whole(DEFAULT_MAX_JSON_BYTES))
        jsonString == JSONStringify(Payload(version, h))
        jsonBuffer == Utf8Encode(jsonString)
        checked == validateJsonLength(Len(jsonBuffer), IntegerOf(maxJsonBytes))
    IN  IF ms.error # "none" THEN EncodeFail(ms.error)
        ELSE IF validateHeaders(h) # "ok" THEN EncodeFail(validateHeaders(h))
        ELSE IF checked # "ok" THEN EncodeFail(checked)
        ELSE [error |-> "none", buffer |-> makePreludeBuffer(ms.list[1], jsonBuffer)]

-----------------------------------------------------------------------------
(* The inputs explored: a 4-byte head (a configured marker or not), then a  *)
(* length field and a payload (consistent or not), then a body.  The        *)
(* producer may end the stream after any prefix of them.                    *)

MarkerHeads == { DEFAULT_MAGIC, META_MAGIC }
OtherHeads == { <<80, 82, 69, 50>>,      \* 'PRE2': differs from 'PRE1' in the last byte
                <<88, 88, 88, 88>> }     \* 'XXXX'

Payloads == { <<123, 125>>,                          \* {}
              <<123, 32, 125>>,                      \* { }
              <<123, 34, 118, 34, 58, 49, 125>>,     \* {"v":1}
              <<123, 34, 118, 34, 58, 50, 125>>,     \* {"v":2}
              <<91, 93>>,                            \* []
              <<49, 50>>,                            \* 12
              <<123, 120>> }                         \* {x

\* a body that itself starts like a frame: 'PRE1', then 'A', 'B', ...
BodyByte(i) == IF i <= 4 THEN DEFAULT_MAGIC[i] ELSE 60 + i
Bodies == { [i \in 1..n |-> BodyByte(i)] : n \in 0..MaxBody }

Tails == { UInt32BE(Len(p)) \o p : p \in Payloads }
            \cup { UInt32BE(0), UInt32BE(MaxJsonBytes + 1), UInt32BE(7 * 256) }

\* what follows a head that is no marker: nothing, or the start of a frame
OtherTails == { <<>>, UInt32BE(2) \o <<123, 125>> }

Inputs == { h \o t \o b : h \in MarkerHeads, t \in Tails, b \in Bodies }
            \cup { h \o t \o b : h \in OtherHeads, t \in OtherTails, b \in Bodies }

\* a body that is itself a whole frame, 'PRE1' 2 {}, behind a head that is
\* no marker and behind a frame
EmptyFrame == DEFAULT_MAGIC \o UInt32BE(2) \o <<123, 125>>
FramesInBody == { <<88, 88, 88, 88>> \o EmptyFrame, EmptyFrame \o EmptyFrame }

\* the calls explored: opts, and how the source stands when parsePrelude is
\* called (readableFlowing, the 'data' listeners of other consumers).
\* autoPause is read only for a flowing source with a 'data' listener.
\* onHeaders is absent ("none"), a callback that returns ("returns") or one
\* that throws ("throws"); callbacks are explored on a fresh source.
Options == [requirePrelude : BOOLEAN, autoPause : BOOLEAN,
            onHeaders : {"none", "returns", "throws"}]
SourceModes == { <<"null", 0>>, <<"paused", 1>>, <<"flowing", 0>>, <<"flowing", 1>> }
Calls == { c \in Options \X SourceModes :
             /\ c[1].autoPause => c[2] = <<"flowing", 1>>
             /\ c[1].onHeaders # "none" => c[2] = <<"null", 0>> }

-----------------------------------------------------------------------------
(* parsePreludeTransform: transform(chunk, enc, cb)                         *)

Prelude(h) == [type |-> "prelude", headers |-> h, bytes |-> <<>>]
Push(b) == [type |-> "push", headers |-> NoValue, bytes |-> b]

\* this.emit('prelude', h)
EmitPrelude(ev, h) == ev \o <<Prelude(h)>>

\* this.push(b)
ThisPush(ev, b) ==
    IF ev # <<>> /\ ev[Len(ev)].type = "push"
    THEN [ev EXCEPT ![Len(ev)] = Push(ev[Len(ev)].bytes \o b)]
    ELSE ev \o <<Push(b)>>

CaseMagicPushBeforeEmit(st) ==
    LET slice == Slice(st.buffer, 0, MAGIC_LENGTH)
        rest == SliceFrom(st.buffer, MAGIC_LENGTH)
    IN  IF ~MagicsSome(magics, slice)
        THEN [st EXCEPT !.events = EmitPrelude(ThisPush(st.events, slice \o rest), EmptyHeaders),
                        !.stage = "body", !.buffer = <<>>, !.needed = 0]
        ELSE [st EXCEPT !.buffer = rest, !.stage = "length", !.needed = LENGTH_BYTES]

CaseMagicDropsSlice(st) ==
    LET slice == Slice(st.buffer, 0, MAGIC_LENGTH)
        rest == SliceFrom(st.buffer, MAGIC_LENGTH)
    IN  IF ~MagicsSome(magics, slice)
        THEN [st EXCEPT !.events =
                            LET e1 == EmitPrelude(st.events, EmptyHeaders)
                            IN  IF Len(rest) > 0 THEN ThisPush(e1, rest) ELSE e1,
                        !.stage = "body", !.buffer = <<>>, !.needed = 0]
        ELSE [st EXCEPT !.buffer = rest, !.stage = "length", !.needed = LENGTH_BYTES]

\* case 'magic'
CaseMagic(st) ==
    LET slice == Slice(st.buffer, 0, MAGIC_LENGTH)
        rest == SliceFrom(st.buffer, MAGIC_LENGTH)
    IN  IF ~MagicsSome(magics, slice)
        THEN [st EXCEPT !.events =
                            LET e1 == ThisPush(EmitPrelude(st.events, EmptyHeaders), slice)
                            IN  IF Len(rest) > 0 THEN ThisPush(e1, rest) ELSE e1,
                        !.stage = "body", !.buffer = <<>>, !.needed = 0]
        ELSE [st EXCEPT !.buffer = rest, !.stage = "length", !.needed = LENGTH_BYTES]

\* case 'length'
CaseLength(st) ==
    LET len == readUInt32BE(st.buffer, 0)
        v == validateJsonLength(len, MaxJsonBytes)
    IN  IF v # "ok" THEN [st EXCEPT !.jsonLength = len, !.error = v]
        ELSE [st EXCEPT !.jsonLength = len, !.buffer = SliceFrom(st.buffer, LENGTH_BYTES),
                        !.stage = "json", !.needed = len]

\* the machine started again behind a payload
CaseJsonStartsAgain(st) ==
    [st EXCEPT !.buffer = SliceFrom(st.buffer, st.jsonLength),
               !.events = EmitPrelude(st.events, EmptyHeaders),
               !.stage = "magic", !.needed = MAGIC_LENGTH]

\* case 'json'
CaseJson(st) ==
    LET jsonBuffer == Slice(st.buffer, 0, st.jsonLength)
        rest == SliceFrom(st.buffer, st.jsonLength)
        parsed == JsonParse(jsonBuffer)
    IN  IF ~parsed.ok THEN [st EXCEPT !.buffer = rest, !.error = "PreludeJsonParseError"]
        ELSE IF ~isPlainObject(parsed.value)
             THEN [st EXCEPT !.buffer = rest, !.error = "PreludeInvalidTypeError"]
        ELSE [st EXCEPT !.buffer = rest, !.events = EmitPrelude(st.events, parsed.value),
                        !.stage = "body", !.needed = 0]

SwitchStage(st) ==
    CASE st.stage = "magic" -> CaseMagic(st)
      [] st.stage = "length" -> CaseLength(st)
      [] st.stage = "json" -> CaseJson(st)
      [] OTHER -> st

\* while (buffer.length >= needed) { switch (stage) ...; if (stage === 'body') break }
RECURSIVE WhileLoop(_)

\* a first turn of the loop taken only for more bytes than needed
WhileLoopMoreThanNeeded(st) ==
    IF Len(st.buffer) <= st.needed THEN st
    ELSE LET nx == SwitchStage(st)
         IN  IF nx.error # "none" \/ nx.stage = "body" THEN nx ELSE WhileLoop(nx)

WhileLoop(st) ==
    IF Len(st.buffer) < st.needed THEN st
    ELSE LET nx == SwitchStage(st)
         IN  IF nx.error # "none" \/ nx.stage = "body" THEN nx ELSE WhileLoop(nx)

BodyFlushDropsLeftover(st) ==
    IF st.error = "none" /\ st.stage = "body" /\ Len(st.buffer) > 0
    THEN [st EXCEPT !.buffer = <<>>]
    ELSE st

\* if (stage === 'body' && buffer.length) { this.push(buffer); buffer = alloc(0) }
BodyFlush(st) ==
    IF st.error = "none" /\ st.stage = "body" /\ Len(st.buffer) > 0
    THEN [st EXCEPT !.events = ThisPush(st.events, st.buffer), !.buffer = <<>>]
    ELSE st

TransformState ==
    [stage |-> stage, needed |-> needed, buffer |-> buffer, jsonLength |-> jsonLength,
     events |-> events, error |-> tError]

\* one call of transform(chunk): concat, loop, flush, cb() or cb(error)
transform(chunk) ==
    BodyFlush(WhileLoop([TransformState EXCEPT !.buffer = buffer \o chunk]))

\* the bytes a sequence of events pushed downstream
RECURSIVE Concat(_)
Concat(ev) == IF ev = <<>> THEN <<>> ELSE Head(ev).bytes \o Concat(Tail(ev))

LengthAtCbBeforePush(before, pushedNow) == before

\* this.push(...) comes before cb(): the length of the readable side that
\* the callback finds
LengthAtCb(before, pushedNow) == before + pushedNow

\* Transform._write: the callback given to transform() acknowledges the
\* write at once when nothing was pushed or the readable side is below its
\* high-water mark, and is held back until the next _read otherwise
AckAtOnce(before, atCb) == before = atCb \/ atCb < HighWaterMark

\* the upstream writes the next k bytes of the input as one chunk; the
\* Writable hands a chunk to transform() once the previous one is acknowledged
Write(k) ==
    /\ ~tEnded /\ tError = "none" /\ ~ackPending
    /\ k \in 1..(Len(input) - written)
    /\ LET st == transform(SubSeq(input, written + 1, written + k))
           before == Len(Concat(events)) - downRead
           pushedNow == Len(Concat(st.events)) - Len(Concat(events))
       IN  /\ stage' = st.stage
           /\ needed' = st.needed
           /\ buffer' = st.buffer
           /\ jsonLength' = st.jsonLength
           /\ events' = st.events
           /\ tError' = st.error
           /\ ackPending' = (st.error = "none"
                               /\ ~AckAtOnce(before, LengthAtCb(before, pushedNow)))
    /\ written' = written + k
    /\ UNCHANGED <<input, opts, argVars, codecVars, frameError, tEnded, downRead, pullVars>>

\* the downstream reads what the readable side holds; _read releases a
\* callback that was held back
DownstreamRead ==
    /\ downRead < Len(Concat(events))
    /\ downRead' = Len(Concat(events))
    /\ ackPending' = FALSE
    /\ UNCHANGED <<input, opts, argVars, codecVars, frameError, written, stage, needed, buffer, jsonLength, events, tError,
                   tEnded, pullVars>>

\* the upstream ends the writable side: the Transform is given no flush(),
\* so it finishes without looking at stage or buffer
End ==
    /\ ~tEnded /\ tError = "none" /\ ~ackPending
    /\ tEnded' = TRUE
    /\ UNCHANGED <<input, opts, argVars, codecVars, frameError, written, stage, needed, buffer, jsonLength, events, tError,
                   downRead, ackPending, pullVars>>

\* a new transform, nothing written yet
InitTransform ==
    /\ written = 0
    /\ stage = "magic"
    /\ needed = MAGIC_LENGTH
    /\ buffer = <<>>
    /\ jsonLength = 0
    /\ events = <<>>
    /\ tError = "none"
    /\ tEnded = FALSE
    /\ downRead = 0
    /\ ackPending = FALSE

\* a new source, parsePrelude not called yet
InitSource ==
    /\ sent = 0
    /\ srcBuf = <<>>
    /\ srcEnded = FALSE
    /\ srcEndScheduled = FALSE
    /\ srcEndEmitted = FALSE
    /\ srcDestroyed = FALSE
    /\ srcError = "none"
    /\ srcErrorPending = FALSE
    /\ readablePending = FALSE
    /\ listeners = {}
    /\ pc = "idle"
    /\ field = "magic"
    /\ collected = <<>>
    /\ receivedMagic = <<>>
    /\ pJsonLength = 0
    /\ headers = NoValue
    /\ error = "none"
    /\ remainder = "none"
    /\ observed = <<>>
    /\ probe = "none"
    /\ relayBuf = <<>>
    /\ relayEnded = FALSE
    /\ out = <<>>
    /\ remDone = FALSE
    /\ relayFlowing = "null"
    /\ remListener = FALSE
    /\ remError = "none"

\* what validateReadableStream looks for, and what parsePrelude, readExactly
\* and the remainder helpers call on the source
ContractProps == {"pipe", "on", "readable", "destroy"}
UsedProps == {"pause", "read", "once", "off", "unshift", "pipe", "destroy"}

\* a stream.Readable of Node
NodeReadable == [kind |-> "object", props |-> ContractProps \cup UsedProps]

\* validateReadableStream(stream): the error it throws, "ok" when it returns
validateReadableStream(stream) ==
    IF stream.kind \in {"null", "undefined"} THEN "PreludeInvalidStreamError"
    ELSE IF stream.kind # "object" THEN "PreludeInvalidStreamError"
    ELSE IF "pipe" \notin stream.props THEN "PreludeInvalidStreamError"
    ELSE IF "on" \notin stream.props THEN "PreludeInvalidStreamError"
    ELSE IF "readable" \notin stream.props THEN "PreludeInvalidStreamError"
    ELSE IF "destroy" \notin stream.props THEN "PreludeInvalidStreamError"
    ELSE "ok"

\* every property parsePrelude reads or calls on the value is there
Usable(stream) == stream.kind = "object" /\ UsedProps \subseteq stream.props

\* opts.magic taken as it comes
MagicUnchecked == TRUE

\* assertMagicList(opts.magic) of the parser calls returns
MagicOk == assertMagicList(magicOpt).error = "none"

\* a Readable as source, and opts.magic = ['PRE1', 'META']
UsualCall ==
    /\ source = NodeReadable
    /\ magicOpt = Arr(<<Str(DEFAULT_MAGIC), Str(META_MAGIC)>>)

\* none of the buffer functions was called, frameStream did not throw
InitCodec ==
    /\ encoded = EncodeFail("notcalled")
    /\ sized = SizeFail("notcalled")
    /\ decBuffer = <<>>
    /\ decoded = DecodeFail("notcalled")
    /\ frameError = "none"

\* frameStream(source, {}, { maxJsonBytes: MaxJsonBytes })
DefaultArgs ==
    /\ encHeaders = Obj(<<>>)
    /\ encOpts = [magic |-> Undefined, version |-> Undefined,
                  maxJsonBytes |-> Whole(MaxJsonBytes)]

\* parsePreludeTransform(opts), with and without opts.requirePrelude
InitPush ==
    /\ input \in Inputs \cup FramesInBody
    /\ opts \in { o \in Options : ~o.autoPause /\ o.onHeaders = "none" }
    /\ InitTransform
    /\ InitSource
    /\ InitCodec
    /\ UsualCall
    /\ DefaultArgs
    /\ srcFlowing = "null"
    /\ srcDataListeners = 0

NextPush ==
    \/ \E k \in 1..(MAGIC_LENGTH + LENGTH_BYTES + MaxJsonBytes + MaxBody) : Write(k)
    \/ DownstreamRead
    \/ End

SpecPush == InitPush /\ [][NextPush]_vars

\* what was written so far, and what went downstream so far
Written == SubSeq(input, 1, written)

Pushed == Concat(events)
Emitted == SelectSeq(events, LAMBDA e : e.type = "prelude")


-----------------------------------------------------------------------------
(* The source: a Node Readable in paused mode, as readExactly uses it       *)

\* stream.read(n), n > 0, on a byte stream: n bytes when that many are
\* buffered; what is left when the stream has ended; null otherwise.  A read
\* that finds, or leaves, the ended stream empty schedules 'end'.
StreamReadWholeBuffer(n, buf, ended) ==
    IF Len(buf) >= n
    THEN [isNull |-> FALSE, chunk |-> buf, buf |-> <<>>, endReadable |-> FALSE]
    ELSE IF ended /\ Len(buf) > 0
    THEN [isNull |-> FALSE, chunk |-> buf, buf |-> <<>>, endReadable |-> TRUE]
    ELSE [isNull |-> TRUE, chunk |-> <<>>, buf |-> buf, endReadable |-> ended]

StreamRead(n, buf, ended) ==
    IF Len(buf) >= n
    THEN [isNull |-> FALSE, chunk |-> Slice(buf, 0, n), buf |-> SliceFrom(buf, n),
          endReadable |-> FALSE]
    ELSE IF ended /\ Len(buf) > 0
    THEN [isNull |-> FALSE, chunk |-> buf, buf |-> <<>>, endReadable |-> TRUE]
    ELSE [isNull |-> TRUE, chunk |-> <<>>, buf |-> buf, endReadable |-> ended]

\* stream.unshift(bytes): ignored by a destroyed stream
StreamUnshift(buf, bytes, destroyed) == IF destroyed THEN buf ELSE bytes \o buf

-----------------------------------------------------------------------------
(* readExactly(stream, size): the synchronous part of its loop, from the    *)
(* bytes collected so far up to its return ("done"), its throw              *)
(* ("truncated") or its next suspension ("wait").                           *)

RECURSIVE readExactlyIgnoresEnded(_, _, _, _)
readExactlyIgnoresEnded(size, coll, buf, endSched) ==
    IF Len(coll) >= size
    THEN [status |-> "done", data |-> coll, buf |-> buf, endSched |-> endSched]
    ELSE LET r == StreamRead(size - Len(coll), buf, srcEnded)
         IN  IF ~r.isNull
             THEN readExactlyIgnoresEnded(size, coll \o r.chunk, r.buf,
                                          endSched \/ r.endReadable)
             ELSE [status |-> "wait", data |-> coll, buf |-> buf,
                   endSched |-> endSched \/ r.endReadable]

RECURSIVE readExactly(_, _, _, _)
readExactly(size, coll, buf, endSched) ==
    IF Len(coll) >= size
    THEN [status |-> "done", data |-> coll, buf |-> buf, endSched |-> endSched]
    ELSE LET r == StreamRead(size - Len(coll), buf, srcEnded)
         IN  IF ~r.isNull
             THEN readExactly(size, coll \o r.chunk, r.buf, endSched \/ r.endReadable)
             ELSE IF srcEndEmitted
             THEN [status |-> "truncated", data |-> coll, buf |-> buf,
                   endSched |-> endSched \/ r.endReadable]
             ELSE [status |-> "wait", data |-> coll, buf |-> buf,
                   endSched |-> endSched \/ r.endReadable]

-----------------------------------------------------------------------------
(* parsePrelude.  An outcome is the state the call and the source are left  *)
(* in by one synchronous run of the async function.                         *)

Outcome(p, f, c, m, jl, h, e, rem, buf, es, relay, flowing) ==
    [pc |-> p, field |-> f, collected |-> c, magic |-> m, jsonLength |-> jl,
     headers |-> h, error |-> e, remainder |-> rem, buf |-> buf, endSched |-> es,
     relay |-> relay, flowing |-> flowing]

Suspended(f, m, r, jl) ==
    Outcome("waiting", f, r.data, m, jl, NoValue, "none", "none", r.buf, r.endSched,
            <<>>, "paused")

RejectedDegradesToFallback(e, f, m, buf, es) ==
    IF f = "magic"
    THEN Outcome("rejected", f, <<>>, m, 0, NoValue, e, "none", buf, es, <<>>, "paused")
    ELSE Outcome("resolved", f, <<>>, m, 0, EmptyHeaders, "none", "relay", buf, es, m,
                 "flowing")

\* throw inside the try block, while or after field f was read
Rejected(e, f, m, buf, es) ==
    Outcome("rejected", f, <<>>, m, 0, NoValue, e, "none", buf, es, <<>>, "paused")

ZeroCopyIgnoresQueued(flowing, buf) == flowing # "flowing"

\* _tryUnshiftRemainder / _tryUnshiftRemainderWithBytes: whether the source
\* itself is handed out (it has unshift, is not flowing, has nothing buffered)
ZeroCopyEligible(flowing, buf) == flowing # "flowing" /\ Len(buf) = 0

ResolvedStrictForgetsHeaders(h, m, jl, buf, es) ==
    LET hs == IF opts.requirePrelude THEN EmptyHeaders ELSE h
    IN  IF ZeroCopyEligible("paused", buf)
        THEN Outcome("resolved", "json", <<>>, m, jl, hs, "none", "source", buf, es, <<>>,
                     "paused")
        ELSE Outcome("resolved", "json", <<>>, m, jl, hs, "none", "relay", buf, es, <<>>,
                     "flowing")

\* return { headers, remainder } after a complete payload
Resolved(h, m, jl, buf, es) ==
    IF ZeroCopyEligible("paused", buf)
    THEN Outcome("resolved", "json", <<>>, m, jl, h, "none", "source", buf, es, <<>>,
                 "paused")
    \* _createPassThroughRemainder: source.pipe(remainder) resumes the source
    ELSE Outcome("resolved", "json", <<>>, m, jl, h, "none", "relay", buf, es, <<>>,
                 "flowing")

\* what opts.onHeaders is given, and the remainder that exists when it runs
OnHeadersCall(h, rem) == [headers |-> h, remainder |-> rem]

OnHeadersUncaught(h, m, jl, buf, es) ==
    IF opts.onHeaders = "none" THEN Resolved(h, m, jl, buf, es) @@ [calls |-> <<>>]
    ELSE IF opts.onHeaders = "throws"
    THEN Rejected("CallbackError", "json", m, buf, es)
            @@ [calls |-> <<OnHeadersCall(h, "none")>>]
    ELSE Resolved(h, m, jl, buf, es) @@ [calls |-> <<OnHeadersCall(h, "none")>>]

\* if (opts.onHeaders) { try { opts.onHeaders(headers) } catch { ignored } },
\* then the remainder and the return
OnHeaders(h, m, jl, buf, es) ==
    IF opts.onHeaders = "none" THEN Resolved(h, m, jl, buf, es) @@ [calls |-> <<>>]
    ELSE Resolved(h, m, jl, buf, es) @@ [calls |-> <<OnHeadersCall(h, "none")>>]

FallbackDropsProbe(bytes, buf, es) ==
    IF ZeroCopyEligible("paused", buf)
    THEN Outcome("resolved", "magic", <<>>, bytes, 0, EmptyHeaders, "none", "source",
                 buf, es, <<>>, "paused")
    ELSE Outcome("resolved", "magic", <<>>, bytes, 0, EmptyHeaders, "none", "relay",
                 buf, es, <<>>, "flowing")

\* the fallback of a marker mismatch: the probed bytes are unshifted into the
\* source, or written first into a relay
Fallback(bytes, buf, es) ==
    IF ZeroCopyEligible("paused", buf)
    THEN Outcome("resolved", "magic", <<>>, bytes, 0, EmptyHeaders, "none", "source",
                 StreamUnshift(buf, bytes, srcDestroyed), es, <<>>, "paused")
    ELSE Outcome("resolved", "magic", <<>>, bytes, 0, EmptyHeaders, "none", "relay",
                 buf, es, bytes, "flowing")

MismatchNeverThrows(bytes, buf, es) == Fallback(bytes, buf, es)

\* if (!magics.some(...)) { if (opts.requirePrelude) throw ...; fallback }
Mismatch(bytes, buf, es) ==
    IF opts.requirePrelude
    THEN Rejected("PreludeMagicMismatchError", "magic", bytes, buf, es)
    ELSE Fallback(bytes, buf, es)

FieldSizeJsonOffByOne(f, jl) ==
    CASE f = "magic" -> MAGIC_LENGTH
      [] f = "length" -> LENGTH_BYTES
      [] OTHER -> jl + 1

\* the size each readExactly of parsePrelude asks for
FieldSize(f, jl) ==
    CASE f = "magic" -> MAGIC_LENGTH
      [] f = "length" -> LENGTH_BYTES
      [] OTHER -> jl

\* the body of parsePrelude from the readExactly of field f on
RECURSIVE parseFrom(_, _, _, _, _, _)
parseFrom(f, coll, m, buf, es, jl) ==
    LET r == readExactly(FieldSize(f, jl), coll, buf, es)
    IN  IF r.status = "wait" THEN Suspended(f, m, r, jl)
        ELSE IF r.status = "truncated"
             THEN Rejected("PreludeTruncatedError", f, m, r.buf, r.endSched)
        ELSE CASE f = "magic" ->
                    IF ~MagicsSome(magics, r.data)
                    THEN Mismatch(r.data, r.buf, r.endSched)
                    ELSE parseFrom("length", <<>>, r.data, r.buf, r.endSched, jl)
               [] f = "length" ->
                    LET len == readUInt32BE(r.data, 0)
                        v == validateJsonLength(len, MaxJsonBytes)
                    IN  IF v # "ok" THEN Rejected(v, f, m, r.buf, r.endSched)
                        ELSE parseFrom("json", <<>>, m, r.buf, r.endSched, len)
               [] OTHER ->
                    LET parsed == JsonParse(r.data)
                    IN  IF ~parsed.ok
                        THEN Rejected("PreludeJsonParseError", f, m, r.buf, r.endSched)
                        ELSE IF ~isPlainObject(parsed.value)
                        THEN Rejected("PreludeInvalidTypeError", f, m, r.buf, r.endSched)
                        ELSE OnHeaders(parsed.value, m, jl, r.buf, r.endSched)

\* isFramedStream returns: the promise resolves with res and the caller may
\* go on to call parsePrelude
Probed(res, buf, es) ==
    Outcome("idle", "magic", <<>>, <<>>, 0, NoValue, "none", "none", buf, es, <<>>,
            "paused") @@ [probe |-> res]

\* the body of isFramedStream from its readExactly on: the probed bytes are
\* compared and not put back
probeFrom(coll, buf, es) ==
    LET r == readExactly(MAGIC_LENGTH, coll, buf, es)
    IN  IF r.status = "wait" THEN Suspended("probe", <<>>, r, 0) @@ [probe |-> "pending"]
        ELSE IF r.status = "truncated" THEN Probed("false", r.buf, r.endSched)
        ELSE Probed(IF MagicsSome(magics, r.data) THEN "true" ELSE "false",
                    r.buf, r.endSched)

\* the events a suspended readExactly listens for
WaitEvents == {"readable", "end", "error"}

\* no cleanup(): the listener that ran is gone, being a once() listener
cleanupNotCalled(ls, fired) == ls \ {fired}

\* cleanup(), called by the listener that ran: off() for all three
cleanup(ls, fired) == ls \ WaitEvents

CatchWithoutDestroy(o) == srcDestroyed

\* catch (error) { source.destroy(error); throw error }
CatchDestroys(o) == srcDestroyed \/ o.pc = "rejected"

\* the call and the source after a synchronous run with outcome o
Apply(o) ==
    /\ pc' = o.pc
    /\ field' = o.field
    /\ collected' = o.collected
    /\ receivedMagic' = o.magic
    /\ pJsonLength' = o.jsonLength
    /\ headers' = o.headers
    /\ error' = o.error
    /\ remainder' = o.remainder
    /\ observed' = observed \o (IF "calls" \in DOMAIN o THEN o.calls ELSE <<>>)
    /\ probe' = (IF "probe" \in DOMAIN o THEN o.probe ELSE probe)
    /\ srcBuf' = o.buf
    /\ srcEndScheduled' = o.endSched
    /\ relayBuf' = o.relay
    /\ srcFlowing' = o.flowing
    /\ srcDestroyed' = CatchDestroys(o)
    /\ srcError' = IF o.pc = "rejected" /\ ~srcDestroyed THEN o.error ELSE srcError
    \* stream.once('readable') on a stream with buffered bytes emits 'readable'
    /\ readablePending' = (o.pc = "waiting" /\ Len(o.buf) > 0 /\ ~srcDestroyed)
    \* stream.once('readable', ...), stream.once('end', ...), stream.once('error', ...)
    /\ listeners' = (IF o.pc = "waiting" THEN listeners \cup WaitEvents ELSE listeners)

FlowingGuardIgnoresListeners == srcFlowing = "flowing" /\ ~opts.autoPause

\* the guard in front of the first read
FlowingGuardFails ==
    srcFlowing = "flowing" /\ srcDataListeners > 0 /\ ~opts.autoPause

\* parsePrelude(source, opts) is called
ParseCall ==
    /\ pc = "idle"
    /\ MagicOk /\ Usable(source)
    /\ \E o \in { IF FlowingGuardFails
                   THEN Rejected("PreludeFlowingModeError", "magic", <<>>, srcBuf,
                                 srcEndScheduled)
                   ELSE parseFrom("magic", <<>>, <<>>, srcBuf, srcEndScheduled, 0) } :
            Apply(o)
    /\ UNCHANGED <<input, opts, argVars, codecVars, frameError, pushVars, sent, srcEnded, srcEndEmitted, srcDataListeners,
                   srcErrorPending, relayEnded, out, remDone, relayFlowing, remListener,
                   remError>>

\* isFramedStream(source) is called, before any parsePrelude
ProbeCall ==
    /\ pc = "idle" /\ probe = "none"
    /\ MagicOk /\ Usable(source)
    /\ IF srcFlowing = "flowing" /\ srcDataListeners > 0
       THEN /\ probe' = "false"
            /\ UNCHANGED <<pc, field, collected, receivedMagic, pJsonLength, headers,
                           error, remainder, observed, srcBuf, srcEndScheduled, relayBuf,
                           srcFlowing, srcDestroyed, srcError, readablePending, listeners>>
       ELSE \E o \in { probeFrom(<<>>, srcBuf, srcEndScheduled) } : Apply(o)
    /\ UNCHANGED <<input, opts, argVars, codecVars, frameError, pushVars, sent, srcEnded, srcEndEmitted, srcDataListeners,
                   srcErrorPending, relayEnded, out, remDone, relayFlowing, remListener,
                   remError>>

\* the continuation after onReadable resolved the wait
Resume ==
    /\ pc = "resume"
    /\ \E o \in { IF field = "probe"
                   THEN probeFrom(collected, srcBuf, srcEndScheduled)
                   ELSE parseFrom(field, collected, receivedMagic, srcBuf,
                                  srcEndScheduled, pJsonLength) } :
            Apply(o)
    /\ UNCHANGED <<input, opts, argVars, codecVars, frameError, pushVars, sent, srcEnded, srcEndEmitted, srcDataListeners,
                   srcErrorPending, relayEnded, out, remDone, relayFlowing, remListener,
                   remError>>

\* 'readable' reaches onReadable: cleanup(), resolve()
OnReadable ==
    /\ pc = "waiting" /\ readablePending /\ ~srcDestroyed
    /\ pc' = "resume"
    /\ readablePending' = FALSE
    /\ listeners' = cleanup(listeners, "readable")
    /\ UNCHANGED <<input, opts, argVars, codecVars, frameError, pushVars, sent, srcBuf, srcEnded, srcEndScheduled,
                   srcEndEmitted, srcFlowing, srcDataListeners, srcDestroyed, srcError,
                   srcErrorPending, field, collected, receivedMagic, pJsonLength,
                   headers, error, remainder, observed, probe, remVars>>

\* the producer pushes the next k bytes.  Before the call, bytes pushed into
\* a flowing source go to its other consumers and are no input of the parse.
SourcePush(k) ==
    /\ ~srcEnded /\ ~srcDestroyed
    /\ pc = "idle" => srcFlowing # "flowing"
    /\ k \in 1..(Len(input) - sent)
    /\ srcBuf' = srcBuf \o SubSeq(input, sent + 1, sent + k)
    /\ sent' = sent + k
    /\ readablePending' = (readablePending \/ pc = "waiting")
    /\ UNCHANGED listeners
    /\ UNCHANGED <<input, opts, argVars, codecVars, frameError, pushVars, srcEnded, srcEndScheduled, srcEndEmitted,
                   srcFlowing, srcDataListeners, srcDestroyed, srcError, srcErrorPending,
                   parseVars, remVars>>

\* the producer pushes EOF, after any prefix of the input.  A source that
\* is flowing before the call emits its 'end' at once, to its other consumers.
SourceEnd ==
    /\ ~srcEnded /\ ~srcDestroyed
    /\ srcEnded' = TRUE
    /\ srcEndEmitted' = (pc = "idle" /\ srcFlowing = "flowing")
    /\ readablePending' = (readablePending \/ pc = "waiting")
    /\ UNCHANGED listeners
    /\ UNCHANGED <<input, opts, argVars, codecVars, frameError, pushVars, sent, srcBuf, srcEndScheduled,
                   srcFlowing, srcDataListeners, srcDestroyed, srcError, srcErrorPending,
                   parseVars, remVars>>

\* somebody else destroys the source before the promise settled, with an
\* error (e = "SourceError") or without (e = "none")
SourceDestroy(e) ==
    /\ ~srcDestroyed
    /\ pc \in {"idle", "waiting", "resume"}
    /\ srcDestroyed' = TRUE
    /\ srcError' = e
    /\ srcErrorPending' = (e # "none")
    /\ readablePending' = FALSE
    /\ UNCHANGED listeners
    /\ UNCHANGED <<input, opts, argVars, codecVars, frameError, pushVars, sent, srcBuf, srcEnded, srcEndScheduled,
                   srcEndEmitted, srcFlowing, srcDataListeners, parseVars, remVars>>

\* the settlement of the promise by a listener of the wait: cleanup(), reject(e)
RejectWait(e, fired) ==
    IF field = "probe"
    THEN \* isFramedStream: catch { return false }
         /\ pc' = "idle"
         /\ probe' = "false"
         /\ collected' = <<>>
         /\ readablePending' = FALSE
         /\ listeners' = cleanup(listeners, fired)
         /\ UNCHANGED <<error, pJsonLength, srcDestroyed, srcError>>
    ELSE /\ pc' = "rejected"
         /\ error' = e
         /\ collected' = <<>>
         /\ pJsonLength' = 0
         /\ srcDestroyed' = CatchDestroys([pc |-> "rejected"])
         /\ srcError' = IF srcDestroyed THEN srcError ELSE e
         /\ readablePending' = FALSE
         /\ listeners' = cleanup(listeners, fired)
         /\ UNCHANGED probe

\* 'end' is emitted; onEnd rejects a wait with PreludeTruncatedError
EmitEnd ==
    /\ srcEndScheduled /\ ~srcEndEmitted /\ srcError = "none" /\ srcBuf = <<>>
    /\ pc \in {"idle", "waiting", "resume"}
    /\ srcEndEmitted' = TRUE
    /\ IF pc = "waiting"
       THEN RejectWait("PreludeTruncatedError", "end")
       ELSE UNCHANGED <<pc, error, collected, pJsonLength, srcDestroyed, srcError,
                        readablePending, listeners, probe>>
    /\ UNCHANGED <<input, opts, argVars, codecVars, frameError, pushVars, sent, srcBuf, srcEnded, srcEndScheduled,
                   srcFlowing, srcDataListeners, srcErrorPending, field, receivedMagic,
                   headers, remainder, observed, remVars>>

\* 'error' is emitted; onError rejects a wait with the source's error
EmitError ==
    /\ srcErrorPending
    /\ pc \in {"idle", "waiting", "resume"}
    /\ srcErrorPending' = FALSE
    /\ IF pc = "waiting"
       THEN RejectWait(srcError, "error")
       ELSE UNCHANGED <<pc, error, collected, pJsonLength, srcDestroyed, srcError,
                        readablePending, listeners, probe>>
    /\ UNCHANGED <<input, opts, argVars, codecVars, frameError, pushVars, sent, srcBuf, srcEnded, srcEndScheduled,
                   srcEndEmitted, srcFlowing, srcDataListeners, field, receivedMagic,
                   headers, remainder, observed, remVars>>

-----------------------------------------------------------------------------
(* The remainder, read to its end by the caller                             *)

\* the caller holds a stream made from the source
Handed == pc \in {"resolved", "framed"}

\* that stream is a PassThrough
IsRelay == remainder \in {"relay", "framed", "framing"}

\* source.pipe(...) into it was called
Piped == remainder \in {"relay", "framed"}

\* source.pipe(remainder): buffered bytes of the flowing source are written
\* to the relay
PipeFlow ==
    /\ Handed /\ Piped /\ ~srcDestroyed /\ remError = "none"
    /\ srcBuf # <<>>
    /\ relayBuf' = relayBuf \o srcBuf
    /\ srcBuf' = <<>>
    /\ UNCHANGED <<input, opts, argVars, codecVars, frameError, pushVars, sent, srcEnded, srcEndScheduled, srcEndEmitted,
                   srcFlowing, srcDataListeners, srcDestroyed, srcError, srcErrorPending,
                   readablePending, listeners, parseVars, relayEnded, out, remDone, relayFlowing,
                   remListener, remError>>

\* { end: true }: the source's 'end' ends the relay
PipeEnd ==
    /\ Handed /\ Piped /\ ~srcDestroyed /\ remError = "none"
    /\ srcEnded /\ srcBuf = <<>> /\ ~relayEnded
    /\ srcEndEmitted' = TRUE
    /\ relayEnded' = TRUE
    /\ UNCHANGED <<input, opts, argVars, codecVars, frameError, pushVars, sent, srcBuf, srcEnded, srcEndScheduled,
                   srcFlowing, srcDataListeners, srcDestroyed, srcError, srcErrorPending,
                   readablePending, listeners, parseVars, relayBuf, out, remDone, relayFlowing,
                   remListener, remError>>

\* the caller reads what the remainder holds
Consume ==
    /\ Handed /\ ~remDone /\ remError = "none"
    /\ \/ /\ IsRelay /\ relayBuf # <<>>
          /\ out' = out \o relayBuf
          /\ relayBuf' = <<>>
          /\ UNCHANGED srcBuf
       \/ /\ remainder = "source" /\ srcBuf # <<>> /\ ~srcDestroyed
          /\ out' = out \o srcBuf
          /\ srcBuf' = <<>>
          /\ UNCHANGED relayBuf
    /\ UNCHANGED <<input, opts, argVars, codecVars, frameError, pushVars, sent, srcEnded, srcEndScheduled, srcEndEmitted,
                   srcFlowing, srcDataListeners, srcDestroyed, srcError, srcErrorPending,
                   readablePending, listeners, parseVars, relayEnded, remDone, relayFlowing,
                   remListener, remError>>

\* the caller sees the remainder end
ConsumeEnd ==
    /\ Handed /\ ~remDone /\ remError = "none"
    /\ \/ /\ IsRelay /\ relayEnded /\ relayBuf = <<>>
          /\ UNCHANGED srcEndEmitted
       \/ /\ remainder = "source" /\ srcEnded /\ srcBuf = <<>> /\ ~srcDestroyed
          /\ srcEndEmitted' = TRUE
    /\ remDone' = TRUE
    /\ UNCHANGED <<input, opts, argVars, codecVars, frameError, pushVars, sent, srcBuf, srcEnded, srcEndScheduled,
                   srcFlowing, srcDataListeners, srcDestroyed, srcError, srcErrorPending,
                   readablePending, listeners, parseVars, relayBuf, relayEnded, out, relayFlowing,
                   remListener, remError>>

\* Readable.on('data', ...): resumes the stream unless it was paused
\* explicitly (readableFlowing === false)
OnDataFlowing(flowing) == IF flowing = "paused" THEN "paused" ELSE "flowing"

\* the caller attaches a 'data' listener to the remainder it was handed
AttachData ==
    /\ Handed /\ ~remListener /\ ~remDone /\ remError = "none"
    /\ remListener' = TRUE
    /\ \/ /\ IsRelay
          /\ relayFlowing' = OnDataFlowing(relayFlowing)
          /\ UNCHANGED srcFlowing
       \/ /\ remainder = "source"
          /\ srcFlowing' = OnDataFlowing(srcFlowing)
          /\ UNCHANGED relayFlowing
    /\ UNCHANGED <<input, opts, argVars, codecVars, frameError, pushVars, sent, srcBuf, srcEnded, srcEndScheduled,
                   srcEndEmitted, srcDataListeners, srcDestroyed, srcError,
                   srcErrorPending, readablePending, listeners, parseVars, relayBuf, relayEnded,
                   out, remDone, remError>>

\* a write that is said to be accepted whatever its size
WroteAlways(prelude) == TRUE

\* const wrote = framed.write(prelude): false when the bytes written reach
\* the high-water mark
Wrote(prelude) == Len(prelude) < FrameHighWaterMark

\* frameStream(source, encHeaders, encOpts) is called on a fresh source
\* instead of parsePrelude.  Either the statements before new PassThrough()
\* throw, or the prelude is written to a new PassThrough; the source is
\* piped into it at once when the write was accepted, and on 'drain'
\* otherwise.
FrameCall ==
    /\ pc = "idle" /\ frameError = "none"
    /\ srcFlowing # "flowing" /\ srcDataListeners = 0
    /\ opts = [requirePrelude |-> FALSE, autoPause |-> FALSE, onHeaders |-> "none"]
    /\ LET p == framePrelude(encHeaders, encOpts) IN
       IF p.error # "none"
          THEN /\ frameError' = p.error
               /\ UNCHANGED <<pc, remainder, relayBuf, srcFlowing>>
          ELSE /\ pc' = "framed"
               /\ relayBuf' = p.buffer
               /\ IF Wrote(p.buffer)
                  THEN remainder' = "framed" /\ srcFlowing' = "flowing"
                  ELSE remainder' = "framing" /\ UNCHANGED srcFlowing
               /\ UNCHANGED frameError
    /\ UNCHANGED <<input, opts, argVars, codecVars, pushVars, sent, srcBuf, srcEnded,
                   srcEndScheduled, srcEndEmitted, srcDataListeners, srcDestroyed,
                   srcError, srcErrorPending, readablePending, listeners, field, collected,
                   receivedMagic, pJsonLength, headers, error, observed, probe,
                   relayEnded, out, remDone, relayFlowing, remListener, remError>>

\* framed.once('drain', startPipe): the caller has read the prelude, the
\* held-back write completes, 'drain' is emitted and the source is piped
FrameDrain ==
    /\ pc = "framed" /\ remainder = "framing" /\ remError = "none"
    /\ relayBuf = <<>>
    /\ remainder' = "framed"
    /\ srcFlowing' = "flowing"
    /\ UNCHANGED <<input, opts, argVars, codecVars, frameError, pushVars, sent, srcBuf,
                   srcEnded, srcEndScheduled, srcEndEmitted, srcDataListeners,
                   srcDestroyed, srcError, srcErrorPending, readablePending, listeners, pc, field,
                   collected, receivedMagic, pJsonLength, headers, error, observed,
                   probe, remVars>>

\* the source fails after the stream was handed to the caller and before
\* its 'end': destroy(error), 'error' on its way
SourceFail ==
    /\ Handed /\ ~srcDestroyed /\ ~srcEndEmitted
    /\ srcDestroyed' = TRUE
    /\ srcError' = "SourceError"
    /\ srcErrorPending' = TRUE
    /\ UNCHANGED <<input, opts, argVars, codecVars, frameError, pushVars, sent, srcBuf, srcEnded, srcEndScheduled,
                   srcEndEmitted, srcFlowing, srcDataListeners, readablePending, listeners,
                   parseVars, remVars>>

onErrorSwallows(e) == "none"

\* const onError = (error) => remainder.destroy(error): what the relay fails with
onError(e) == e

\* the source's 'error' is emitted after the hand-over: the relay's onError
\* destroys the relay with it; the source handed out shows it itself
RemainderError ==
    /\ Handed /\ srcErrorPending /\ remError = "none"
    /\ srcErrorPending' = FALSE
    /\ remError' = (IF IsRelay THEN onError(srcError) ELSE srcError)
    /\ relayBuf' = <<>>
    /\ UNCHANGED <<input, opts, argVars, codecVars, frameError, pushVars, sent, srcBuf, srcEnded, srcEndScheduled,
                   srcEndEmitted, srcFlowing, srcDataListeners, srcDestroyed, srcError,
                   readablePending, listeners, parseVars, relayEnded, out, remDone, relayFlowing,
                   remListener>>

\* readableFlowing of the remainder the caller holds
RemainderFlowing == IF IsRelay THEN relayFlowing ELSE srcFlowing

-----------------------------------------------------------------------------

InitPull ==
    /\ input \in Inputs
    /\ InitTransform
    /\ InitSource
    /\ InitCodec
    /\ UsualCall
    /\ DefaultArgs
    /\ \E c \in Calls : opts = c[1] /\ srcFlowing = c[2][1] /\ srcDataListeners = c[2][2]

\* what the event loop runs once it is due: continuations, pending events
CallbackStep == Resume \/ OnReadable \/ EmitEnd \/ EmitError

\* the call and what follows from it
ParserStep == ParseCall \/ FrameCall \/ CallbackStep

\* what the producer and other owners of the source do
SourceStep ==
    \/ \E k \in 1..(MAGIC_LENGTH + LENGTH_BYTES + MaxJsonBytes + MaxBody) : SourcePush(k)
    \/ SourceEnd
    \/ \E e \in {"none", "SourceError"} : SourceDestroy(e)
    \/ SourceFail

\* what the caller does with the remainder
RemainderStep == PipeFlow \/ PipeEnd \/ Consume \/ ConsumeEnd \/ AttachData \/ RemainderError

NextPull == ParserStep \/ SourceStep \/ RemainderStep

SpecPull == InitPull /\ [][NextPull]_vars

\* one framed and one unframed input, a paused source, default options
InitCancel ==
    /\ input \in { DEFAULT_MAGIC \o UInt32BE(2) \o <<123, 125>> \o <<BodyByte(1)>>,
                   <<88, 88, 88, 88>> \o <<BodyByte(1)>> }
    /\ InitTransform
    /\ InitSource
    /\ InitCodec
    /\ UsualCall
    /\ DefaultArgs
    /\ opts = [requirePrelude |-> FALSE, autoPause |-> FALSE, onHeaders |-> "none"]
    /\ srcFlowing = "paused" /\ srcDataListeners = 0

SpecCancel == InitCancel /\ [][NextPull]_vars

\* the event loop runs every callback that is due; nothing obliges the
\* caller to call, or the producer to push, to end or to destroy
FairCancel == SpecCancel /\ WF_vars(CallbackStep) /\ WF_vars(RemainderStep)

\* the same source, probed with isFramedStream before it is parsed or framed
NextProbe == ProbeCall \/ NextPull

SpecProbe == InitCancel /\ [][NextProbe]_vars

-----------------------------------------------------------------------------
(* The buffer functions: the calls explored, one action per function       *)

\* the characters a, b, e-acute (two bytes in UTF-8) and the double quote
CharA == 97
CharB == 98
CharEAcute == 233
CharQuote == 34

\* values without members
Leaves ==
    { Str(<<>>), Str(<<CharA>>), Str(<<CharEAcute>>), Str(<<CharQuote, CharA>>),
      Whole(0), Whole(7), Num(15), Whole(0 - 3),
      NonFinite("NaN"), NonFinite("Infinity"), NonFinite("-Infinity"),
      Bool(TRUE), Bool(FALSE), Null, Undefined, Exotic }

\* what is put inside arrays and objects
Inner == { Whole(7), Str(<<CharA>>), Null, NonFinite("NaN"), Undefined, Exotic }
Deep == { Whole(7), NonFinite("Infinity"), Undefined, Exotic }

Values ==
    Leaves
      \cup { Arr(<<>>), Obj(<<>>) }
      \cup { Arr(<<x>>) : x \in Inner }
      \cup { Obj(<< <<<<CharA>>, x>> >>) : x \in Inner }
      \cup { Arr(<<Arr(<<x>>)>>) : x \in Deep }
      \cup { Arr(<<Obj(<< <<<<CharA>>, x>> >>)>>) : x \in Deep }
      \cup { Obj(<< <<<<CharB>>, Arr(<<x>>)>> >>) : x \in Deep }

\* the headers argument: plain objects of up to two members, the reserved
\* key among the keys, and three values that are no plain object
HeaderArgs ==
    { Obj(<<>>) }
      \cup { Obj(<< <<k, x>> >>) : k \in { <<CharA>>, <<CharEAcute>>, KeyV }, x \in Values }
      \cup { Obj(<< <<<<CharA>>, x>>, <<<<CharB>>, y>> >>) :
                 x \in { Whole(7), Undefined }, y \in { Str(<<CharA>>), NonFinite("NaN") } }
      \cup { Obj(<< <<<<CharA>>, Whole(7)>>, <<KeyV, Whole(2)>> >>) }
      \cup { Exotic, Arr(<<>>), Null }

\* opts.magic: absent, one marker, a list of markers in both orders, and a
\* marker of five bytes
MagicArgs ==
    { Undefined, Str(META_MAGIC),
      Arr(<<Str(META_MAGIC), Str(DEFAULT_MAGIC)>>),
      Arr(<<Str(DEFAULT_MAGIC), Str(META_MAGIC)>>),
      Str(META_MAGIC \o <<CharA>>) }

\* opts.version: absent, an integer, a number that is no integer, NaN
VersionArgs == { Undefined, Whole(2), Num(15), NonFinite("NaN") }

\* opts.maxJsonBytes: absent, and two limits that some payloads exceed
MaxArgs == { Undefined, Whole(MaxJsonBytes), Whole(MaxPayloadBytes) }

\* the opts explored: at most one option is given
EncodeOptions ==
    { o \in [magic : MagicArgs, version : VersionArgs, maxJsonBytes : MaxArgs] :
        \/ o.magic = Undefined /\ o.version = Undefined
        \/ o.magic = Undefined /\ o.maxJsonBytes = Undefined
        \/ o.version = Undefined /\ o.maxJsonBytes = Undefined }

\* buffers that no encodePrelude call produced: a frame behind a marker that
\* is not configured, frames whose length field is zero or beyond every
\* limit, payloads that are no object or no JSON, and every prefix of them
RawFrames ==
    { <<88, 88, 88, 88>> \o UInt32BE(2) \o <<123, 125>>,
      DEFAULT_MAGIC \o UInt32BE(0) \o <<123, 125>>,
      META_MAGIC \o UInt32BE(2) \o <<91, 93>> \o <<BodyByte(1)>>,
      META_MAGIC \o UInt32BE(2) \o <<123, 120>>,
      DEFAULT_MAGIC \o UInt32BE(7 * 256) \o <<123, 125>>,
      DEFAULT_MAGIC \o UInt32BE(2) \o <<123, 125>> \o <<BodyByte(1)>> }

RawBuffers == UNION { { SubSeq(f, 1, n) : n \in 0..Len(f) } : f \in RawFrames }

\* the buffers decodePrelude is called with after encodePrelude returned:
\* its frame followed by a body, and the frame cut short
FramedBuffers(frame) ==
    { frame \o b : b \in Bodies }
      \cup { SubSeq(frame, 1, n) :
                 n \in { MAGIC_LENGTH + LENGTH_BYTES - 1, MAGIC_LENGTH + LENGTH_BYTES,
                         Len(frame) - 1 } }

EncodeCall ==
    /\ encoded.error = "notcalled"
    /\ encoded' = encodePrelude(encHeaders, encOpts)
    /\ UNCHANGED <<input, opts, argVars, pushVars, pullVars, sized, decBuffer, decoded,
                   frameError>>

SizeCall ==
    /\ sized.error = "notcalled"
    /\ sized' = getPreludeSize(encHeaders, encOpts)
    /\ UNCHANGED <<input, opts, argVars, pushVars, pullVars, encoded, decBuffer, decoded,
                   frameError>>

\* decodePrelude(buf, { magic: encOpts.magic, maxJsonBytes: encOpts.maxJsonBytes })
DecodeCall(buf) ==
    /\ decoded.error = "notcalled"
    /\ decBuffer' = buf
    /\ decoded' = decodePreludeOpts(buf, encOpts)
    /\ UNCHANGED <<input, opts, argVars, pushVars, pullVars, encoded, sized, frameError>>

\* decodePrelude on what encodePrelude returned
DecodeEncoded ==
    /\ encoded.error = "none"
    /\ \E buf \in FramedBuffers(encoded.buffer) : DecodeCall(buf)

\* decodePrelude on a buffer from elsewhere, explored with empty headers
DecodeRaw ==
    /\ encHeaders = Obj(<<>>)
    /\ encOpts.version = Undefined
    /\ \E buf \in RawBuffers : DecodeCall(buf)

InitCodecCalls ==
    /\ input = <<>>
    /\ opts = [requirePrelude |-> FALSE, autoPause |-> FALSE, onHeaders |-> "none"]
    /\ InitTransform
    /\ InitSource
    /\ srcFlowing = "null" /\ srcDataListeners = 0
    /\ InitCodec
    /\ UsualCall
    /\ encHeaders \in HeaderArgs
    /\ encOpts \in EncodeOptions

NextCodec == EncodeCall \/ SizeCall \/ DecodeEncoded \/ DecodeRaw \/ FrameCall

SpecCodec == InitCodecCalls /\ [][NextCodec]_vars

-----------------------------------------------------------------------------
(* The three decoders on the same bytes: the input goes through the         *)
(* transform, is delivered by a source that parsePrelude reads, and is      *)
(* handed whole to decodePrelude.                                           *)

\* payloads that are JSON but no object
NonObjectPayloads ==
    { <<91, 93>>,                      \* []
      <<34, 97, 34>>,                  \* "a"
      <<49, 50>>,                      \* 12
      <<116, 114, 117, 101>>,          \* true
      <<110, 117, 108, 108>> }         \* null

\* payloads that are no JSON
MalformedPayloads ==
    { <<123, 120>>,                    \* {x
      <<110, 117, 108>>,               \* nul
      <<123, 34, 97, 34, 58, 125>> }   \* {"a":}

ShapePayloads == NonObjectPayloads \cup MalformedPayloads

\* JSON.stringify({ v: 1 })
VersionPayload == <<123, 34, 118, 34, 58, 49, 125>>

\* frames with a zero length behind either marker, a body after each
ZeroLengthInputs == { h \o UInt32BE(0) \o <<BodyByte(1)>> : h \in MarkerHeads }

\* frames behind 'PRE1' with each of these payloads, a body after each
ShapeInputs ==
    { DEFAULT_MAGIC \o UInt32BE(Len(p)) \o p \o <<BodyByte(1)>> : p \in ShapePayloads }

\* the frame of empty headers behind either marker and behind 'PRE2', which
\* is not configured, a body after each
MarkerInputs ==
    { h \o UInt32BE(Len(VersionPayload)) \o VersionPayload \o <<BodyByte(1)>> :
          h \in MarkerHeads \cup { <<80, 82, 69, 50>> } }

DecoderInputs == ZeroLengthInputs \cup ShapeInputs \cup MarkerInputs

\* opts of decodePrelude and the encoders: the markers of the other two
\* decoders in the order ms, the limit max
DecoderOpts(ms, max) ==
    [magic |-> Arr(<<Str(ms[1]), Str(ms[2])>>), version |-> Undefined,
     maxJsonBytes |-> Whole(max)]

\* the calls explored: every input under the markers and the limit of the
\* other two decoders, the zero lengths also under a limit below zero, the
\* marker frames also under the markers in the other order
DecoderCalls ==
    { <<i, DecoderOpts(magics, MaxJsonBytes)>> : i \in DecoderInputs }
      \cup { <<i, DecoderOpts(magics, -1)>> : i \in ZeroLengthInputs }
      \cup { <<i, DecoderOpts(<<magics[2], magics[1]>>, MaxJsonBytes)>> : i \in MarkerInputs }

\* decodePrelude(input, { magic: encOpts.magic, maxJsonBytes: encOpts.maxJsonBytes })
DecodeInput ==
    /\ decoded.error = "notcalled"
    /\ decBuffer' = input
    /\ decoded' = decodePreludeOpts(input, encOpts)
    /\ UNCHANGED <<input, opts, argVars, pushVars, pullVars, encoded, sized, frameError>>

InitDecoders ==
    /\ \E call \in DecoderCalls : input = call[1] /\ encOpts = call[2]
    /\ opts \in { o \in Options : ~o.autoPause /\ o.onHeaders = "none" }
    /\ InitTransform
    /\ InitSource
    /\ InitCodec
    /\ UsualCall
    /\ encHeaders = Obj(<<>>)
    /\ srcFlowing = "paused" /\ srcDataListeners = 0

\* nothing was written to the transform
TransformUntouched == written = 0 /\ ~tEnded

\* the source delivered nothing and nobody called anything on it
SourceUntouched == pc = "idle" /\ sent = 0 /\ ~srcEnded /\ ~srcDestroyed

\* decodePrelude was called, and the transform or parsePrelude has settled
DecodersDone ==
    /\ decoded.error # "notcalled"
    /\ \/ tEnded \/ tError # "none"
       \/ pc = "rejected"
       \/ pc = "resolved" /\ remDone

\* The transform and the source are separate objects that share no state:
\* a behaviour takes the bytes through one of them, and decodePrelude is
\* called at any time.  The encoders share no state with any decoder: they
\* are called once the decoders have settled.
NextDecoders ==
    \/ TransformUntouched /\ NextPull
    \/ SourceUntouched /\ NextPush
    \/ DecodeInput
    \/ DecodersDone /\ (EncodeCall \/ SizeCall)

SpecDecoders == InitDecoders /\ [][NextDecoders]_vars

-----------------------------------------------------------------------------
(* frameStream on a source that delivers a few bytes, with a prelude that   *)
(* stays below the high-water mark of the PassThrough and one that reaches  *)
(* it.                                                                      *)

\* {} and { a: 'a' }: preludes of 15 and of 23 bytes
FrameHeaders == { Obj(<<>>), Obj(<< <<<<CharA>>, Str(<<CharA>>)>> >>) }

InitFrame ==
    /\ input \in Bodies
    /\ opts = [requirePrelude |-> FALSE, autoPause |-> FALSE, onHeaders |-> "none"]
    /\ InitTransform
    /\ InitSource
    /\ InitCodec
    /\ UsualCall
    /\ encHeaders \in FrameHeaders
    /\ encOpts = [magic |-> Undefined, version |-> Undefined,
                  maxJsonBytes |-> Whole(MaxPayloadBytes)]
    /\ srcFlowing \in {"null", "paused"} /\ srcDataListeners = 0

NextFrame == FrameCall \/ FrameDrain \/ EmitError \/ SourceStep \/ RemainderStep

SpecFrame == InitFrame /\ [][NextFrame]_vars

-----------------------------------------------------------------------------
(* The parsers called with a value that is no Readable, or with an          *)
(* opts.magic that assertMagicList refuses.                                 *)

\* null, undefined, a number, {}, an object that has every member
\* parsePrelude uses but no 'readable' property, and a Readable
Sources ==
    { [kind |-> k, props |-> {}] : k \in {"null", "undefined", "number", "object"} }
      \cup { [kind |-> "object", props |-> NodeReadable.props \ {"readable"}] }
      \cup { NodeReadable }

\* ['PRE1', 'META'], a token of five bytes, a list with a token of three
\* bytes behind a good one, and a token of four characters and five bytes
MagicOpts ==
    { Arr(<<Str(DEFAULT_MAGIC), Str(META_MAGIC)>>),
      Str(META_MAGIC \o <<CharA>>),
      Arr(<<Str(DEFAULT_MAGIC), Str(<<CharA, CharB, CharA>>)>>),
      Str(<<CharA, CharB, CharA, CharEAcute>>) }

\* parsePrelude(source, opts): assertMagicList(opts.magic) throws in front of
\* the try block, the promise rejects
OptionCall ==
    /\ pc = "idle" /\ probe # "pending"
    /\ ~MagicOk
    /\ pc' = "rejected"
    /\ error' = assertMagicList(magicOpt).error
    /\ UNCHANGED <<input, opts, argVars, codecVars, frameError, pushVars, srcVars, field,
                   collected, receivedMagic, pJsonLength, headers, remainder, observed,
                   probe, remVars>>

\* isFramedStream(source, opts): assertMagicList(opts.magic) throws in front
\* of the try block, the promise rejects
ProbeOptionCall ==
    /\ pc = "idle" /\ probe = "none"
    /\ ~MagicOk
    /\ probe' = "rejected"
    /\ UNCHANGED <<input, opts, argVars, codecVars, frameError, pushVars, srcVars, pc,
                   field, collected, receivedMagic, pJsonLength, headers, error,
                   remainder, observed, remVars>>

\* parsePreludeTransform(opts): assertMagicList(opts.magic) throws, no
\* transform is made
TransformOptionCall ==
    /\ written = 0 /\ tError = "none"
    /\ ~MagicOk
    /\ tError' = assertMagicList(magicOpt).error
    /\ UNCHANGED <<input, opts, argVars, codecVars, frameError, written, stage, needed,
                   buffer, jsonLength, events, tEnded, downRead, ackPending, pullVars>>

\* parsePrelude(source, opts) with a value that lacks what the function
\* reads or calls: source.readableFlowing or source.pause() throws a
\* TypeError inside the try block, source.destroy(error) throws another in
\* the catch block, the promise rejects with a TypeError
InvalidSourceCall ==
    /\ pc = "idle"
    /\ MagicOk /\ ~Usable(source)
    /\ pc' = "rejected"
    /\ error' = "TypeError"
    /\ UNCHANGED <<input, opts, argVars, codecVars, frameError, pushVars, srcVars, field,
                   collected, receivedMagic, pJsonLength, headers, remainder, observed,
                   probe, remVars>>

InitCalls ==
    /\ input \in { DEFAULT_MAGIC \o UInt32BE(2) \o <<123, 125>> \o <<BodyByte(1)>>,
                   <<88, 88, 88, 88>> \o <<BodyByte(1)>> }
    /\ opts = [requirePrelude |-> FALSE, autoPause |-> FALSE, onHeaders |-> "none"]
    /\ InitTransform
    /\ InitSource
    /\ DefaultArgs
    /\ encoded = EncodeFail("notcalled") /\ sized = SizeFail("notcalled")
    /\ decBuffer = <<>> /\ decoded = DecodeFail("notcalled") /\ frameError = "none"
    /\ source \in Sources
    /\ magicOpt \in MagicOpts
    /\ srcFlowing = "null" /\ srcDataListeners = 0

\* a value that is no stream has no producer and no events
NextCalls ==
    \/ Usable(source) /\ (ProbeCall \/ ParseCall \/ CallbackStep \/ SourceStep \/ RemainderStep)
    \/ OptionCall
    \/ ProbeOptionCall
    \/ TransformOptionCall
    \/ InvalidSourceCall

SpecCalls == InitCalls /\ [][NextCalls]_vars

-----------------------------------------------------------------------------
(* The two stream parsers on frames whose declared length is zero, above    *)
(* the limit, or the limit itself.                                          *)

\* a payload of exactly MaxJsonBytes bytes: '{', spaces, '}'
LongestPayload == <<123>> \o [i \in 1..(MaxJsonBytes - 2) |-> 32] \o <<125>>

LengthTails == { UInt32BE(0), UInt32BE(MaxJsonBytes + 1), UInt32BE(7 * 256),
                 UInt32BE(MaxJsonBytes) \o LongestPayload }

InitBounded ==
    /\ input \in { DEFAULT_MAGIC \o t \o b : t \in LengthTails, b \in Bodies }
    /\ opts = [requirePrelude |-> FALSE, autoPause |-> FALSE, onHeaders |-> "none"]
    /\ InitTransform
    /\ InitSource
    /\ InitCodec
    /\ UsualCall
    /\ DefaultArgs
    /\ srcFlowing \in {"null", "paused"}
    /\ srcDataListeners = 0

\* the transform and the source are separate objects: a behaviour takes the
\* bytes through one of them
NextBounded ==
    \/ TransformUntouched /\ (ParseCall \/ CallbackStep \/ SourceStep \/ RemainderStep)
    \/ SourceUntouched /\ NextPush

SpecBounded == InitBounded /\ [][NextBounded]_vars

\* the bytes the source delivered
Delivered == SubSeq(input, 1, sent)

-----------------------------------------------------------------------------
(* Claims about parsePreludeTransform, checked under SpecPush               *)

\* C1: push-mode chunk-boundary invariance.  Whenever the bytes written so
\* far, under whatever chunking, are a frame that decodePrelude accepts
\* followed by some body, the transform has raised no error, has emitted
\* exactly the header decodePrelude returns for those bytes, and the bytes
\* pushed downstream are exactly those from decodePrelude's offset onward.
C1_PushChunkInvariance ==
    LET d == decodePrelude(Written, MaxJsonBytes)
    IN  d.error = "none" =>
            /\ tError = "none"
            /\ Emitted = <<Prelude(d.headers)>>
            /\ Pushed = SliceFrom(Written, d.offset)

\* C1 witness: a whole valid frame with a non-empty header and its longest
\* body went through the transform
C1_Witness ==
    /\ decodePrelude(Written, MaxJsonBytes).error = "none"
    /\ decodePrelude(Written, MaxJsonBytes).headers # EmptyHeaders
    /\ written = Len(input)
    /\ Len(Pushed) = MaxBody

\* C4: the 'prelude' event is emitted at most once, it is emitted exactly
\* when the stage has become 'body', and nothing is pushed downstream before
\* it: the log of the transform is empty, or starts with the one emission.
C4_PreludeOnceBeforeBody ==
    /\ Len(Emitted) <= 1
    /\ (stage = "body") <=> (Len(Emitted) = 1)
    /\ events # <<>> => events[1].type = "prelude"

\* C4 witness: chunks kept arriving after the emission, bytes that look like
\* a marker among them, and were pushed
C4_Witness ==
    /\ stage = "body"
    /\ Len(Emitted) = 1
    /\ Len(Pushed) >= MAGIC_LENGTH
    /\ written = Len(input)

C7_PushTruncationReported ==
    (tEnded /\ written > 0 /\ stage # "body") => tError = "PreludeTruncatedError"


-----------------------------------------------------------------------------
(* Claims about parsePrelude, checked under SpecPull (C8: FairCancel)       *)

\* somebody other than parsePrelude's catch destroyed the source
DestroyedByOthers == srcDestroyed /\ srcError \in {"none", "SourceError"}

\* the source delivered all it had to the parse and ended, undisturbed
DeliveredAndEnded ==
    /\ pc # "framed"
    /\ srcEnded /\ ~DestroyedByOthers /\ error # "PreludeFlowingModeError"

\* a suspended read has an event on its way that will settle or wake it
WaitWillEnd == readablePending \/ (srcEndScheduled /\ ~srcEndEmitted /\ srcBuf = <<>>)

HasMarker(bytes) ==
    Len(bytes) >= MAGIC_LENGTH /\ MagicsSome(magics, Slice(bytes, 0, MAGIC_LENGTH))

\* C2: pull-mode chunk-boundary invariance.  When the source has delivered,
\* under whatever chunking, a frame that decodePrelude accepts followed by a
\* body, and has ended: parsePrelude does not reject and is not left waiting
\* without an event due; once resolved its headers are those decodePrelude
\* returns; and once the caller has read the remainder (the source itself or
\* a relay) to its end, the bytes read are those from decodePrelude's offset.
C2_PullChunkInvariance ==
    LET d == decodePrelude(Delivered, MaxJsonBytes)
    IN  (DeliveredAndEnded /\ d.error = "none") =>
            /\ pc # "rejected"
            /\ pc = "waiting" => WaitWillEnd
            /\ pc = "resolved" => headers = d.headers /\ remainder \in {"source", "relay"}
            /\ remDone => out = SliceFrom(Delivered, d.offset)

\* C2 witness: a frame with a non-empty header and the longest body was
\* parsed, the remainder is a relay, and the caller read it to its end
C2_Witness ==
    /\ DeliveredAndEnded
    /\ decodePrelude(Delivered, MaxJsonBytes).error = "none"
    /\ pc = "resolved" /\ headers # EmptyHeaders
    /\ remainder = "relay"
    /\ remDone /\ Len(out) = MaxBody

EndsInsideFrame(bytes) ==
    \/ Len(bytes) < MAGIC_LENGTH
    \/ /\ HasMarker(bytes)
       /\ \/ Len(bytes) < MAGIC_LENGTH + LENGTH_BYTES
          \/ /\ validateJsonLength(readUInt32BE(bytes, MAGIC_LENGTH), MaxJsonBytes) = "ok"
             /\ Len(bytes) < MAGIC_LENGTH + LENGTH_BYTES + readUInt32BE(bytes, MAGIC_LENGTH)

\* C6: pull-mode truncation.  When the source has ended inside the marker,
\* the length or the payload, parsePrelude never resolves; a suspended read
\* has the event due that settles it; and the rejection is
\* PreludeTruncatedError.
C6_PullTruncation ==
    (DeliveredAndEnded /\ EndsInsideFrame(Delivered)) =>
        /\ pc # "resolved"
        /\ pc = "waiting" => WaitWillEnd
        /\ pc = "rejected" => error = "PreludeTruncatedError"

\* C6 witness: the end fell inside the payload and the promise rejected
C6_Witness ==
    /\ DeliveredAndEnded /\ EndsInsideFrame(Delivered)
    /\ Len(Delivered) > MAGIC_LENGTH + LENGTH_BYTES
    /\ pc = "rejected" /\ error = "PreludeTruncatedError"

\* C8: cancellation liveness.  Whenever a read is suspended on a source that
\* has been destroyed (with or without an error, before the call or during
\* the wait), the promise eventually rejects.
C8_DestroyedEventuallyRejects ==
    [](((srcDestroyed /\ pc = "waiting") => <>(pc = "rejected")))

\* C9: whenever parsePrelude has rejected, with whichever error, the source
\* is destroyed.
C9_RejectedDestroysSource ==
    pc = "rejected" =>
        /\ srcDestroyed
        /\ error \in {"PreludeFlowingModeError", "PreludeTruncatedError",
                      "PreludeMagicMismatchError", "PreludeJsonTooLargeError",
                      "PreludeJsonParseError", NonEmptyError, "PreludeInvalidTypeError",
                      "SourceError"}

\* C9 witness: a rejection by the parser itself, of a source nobody else
\* had destroyed
C9_Witness ==
    /\ pc = "rejected" /\ error = "PreludeInvalidTypeError"
    /\ srcDestroyed /\ srcError = "PreludeInvalidTypeError"

\* C10: with requirePrelude, once the first 4 bytes read equal no configured
\* marker the promise is rejected with PreludeMagicMismatchError, the source
\* is destroyed and there is no remainder; and a resolved strict parse has
\* read a configured marker.
C10_StrictMismatchRejects ==
    opts.requirePrelude =>
        /\ (Len(receivedMagic) = MAGIC_LENGTH /\ ~MagicsSome(magics, receivedMagic)) =>
                /\ pc = "rejected" /\ error = "PreludeMagicMismatchError"
                /\ srcDestroyed
                /\ remainder = "none"
        /\ pc = "resolved" => MagicsSome(magics, receivedMagic)

\* C10 witness: a strict parse read 'PRE2' and rejected
C10_Witness ==
    /\ opts.requirePrelude
    /\ receivedMagic = <<80, 82, 69, 50>>
    /\ pc = "rejected" /\ error = "PreludeMagicMismatchError"


\* C11: strict-mode equivalence.  When the source has delivered bytes that
\* begin with a configured marker and has ended, the outcome of parsePrelude
\* is a function of those bytes alone, the same with and without
\* requirePrelude: it resolves exactly when decodePrelude accepts them, with
\* decodePrelude's headers and a remainder that yields the bytes from
\* decodePrelude's offset, and it rejects exactly with decodePrelude's error.
C11_StrictModeEquivalence ==
    LET d == decodePrelude(Delivered, MaxJsonBytes)
    IN  (DeliveredAndEnded /\ HasMarker(Delivered)) =>
            /\ pc = "resolved" => d.error = "none" /\ headers = d.headers
            /\ pc = "rejected" => d.error # "none" /\ error = d.error
            /\ pc = "waiting" => WaitWillEnd
            /\ remDone => out = SliceFrom(Delivered, d.offset)

\* C11 witness: a strict parse of a frame with the second marker resolved
\* with its header and its remainder was read to the end
C11_Witness ==
    /\ opts.requirePrelude
    /\ DeliveredAndEnded
    /\ receivedMagic = META_MAGIC
    /\ pc = "resolved" /\ headers # EmptyHeaders
    /\ remDone /\ Len(out) = MaxBody


\* C12: hard errors in non-strict mode.  Without requirePrelude, when the
\* bytes delivered begin with a configured marker and carry a length of 0 or
\* above the maximum, a payload that is no JSON, or a payload that is no
\* object, parsePrelude never resolves, hands out no headers and no
\* remainder, rejects only with the error of that violation, and a suspended
\* read has its 'readable' due.
C12_HardErrorsNeverFallBack ==
    LET d == decodePrelude(Delivered, MaxJsonBytes)
    IN  (/\ ~opts.requirePrelude /\ ~DestroyedByOthers
         /\ pc # "framed" /\ error # "PreludeFlowingModeError"
         /\ d.error \in {"PreludeJsonTooLargeError", "PreludeJsonParseError",
                         NonEmptyError, "PreludeInvalidTypeError"}) =>
            /\ pc # "resolved"
            /\ headers = NoValue /\ remainder = "none"
            /\ pc = "rejected" => error = d.error
            /\ pc = "waiting" => readablePending

\* C12 witness: a non-strict parse read a marker and an array payload and
\* rejected, the source still holding body bytes
C12_Witness ==
    /\ ~opts.requirePrelude /\ ~DestroyedByOthers
    /\ MagicsSome(magics, receivedMagic)
    /\ decodePrelude(Delivered, MaxJsonBytes).error = "PreludeInvalidTypeError"
    /\ pc = "rejected" /\ error = "PreludeInvalidTypeError"
    /\ remainder = "none" /\ srcBuf # <<>>


\* C13: flow-control guard.  The step in which parsePrelude is called on a
\* flowing source with a 'data' listener and without autoPause rejects with
\* PreludeFlowingModeError and reads nothing from the source; the call in
\* every other case raises no such error and leaves the source paused, unless
\* it already piped it into a relay; and no later step raises that error.
C13_FlowGuardDecidedAtCall ==
    [][ /\ (pc = "idle" /\ pc' \notin {"idle", "framed"}) =>
              IF srcFlowing = "flowing" /\ srcDataListeners > 0 /\ ~opts.autoPause
              THEN /\ pc' = "rejected" /\ error' = "PreludeFlowingModeError"
                   /\ srcBuf' = srcBuf /\ srcEndScheduled' = srcEndScheduled
                   /\ receivedMagic' = <<>>
              ELSE /\ error' # "PreludeFlowingModeError"
                   /\ srcFlowing' = "paused" \/ remainder' = "relay"
        /\ (pc # "idle" /\ error # "PreludeFlowingModeError") =>
              error' # "PreludeFlowingModeError" ]_vars

\* C13 witness: the guard rejected the call on a flowing source with a
\* 'data' listener
C13_Witness ==
    /\ srcDataListeners > 0 /\ ~opts.autoPause
    /\ pc = "rejected" /\ error = "PreludeFlowingModeError"
    /\ srcDestroyed /\ receivedMagic = <<>>


\* C14: observer callback.  With opts.onHeaders configured, whether it
\* returns or throws: it is never called more than once; a parse that
\* resolved after a payload has called it exactly once, with the headers it
\* resolved with and before any remainder existed, and the parser did not
\* destroy the source; and when the source has delivered a frame that
\* decodePrelude accepts and has ended, the parse does not reject, resolves
\* with decodePrelude's headers, and its remainder yields the bytes from
\* decodePrelude's offset.
C14_ObserverCallback ==
    LET d == decodePrelude(Delivered, MaxJsonBytes)
    IN  opts.onHeaders # "none" =>
            /\ Len(observed) <= 1
            /\ (pc = "resolved" /\ field = "json") =>
                  /\ observed = <<OnHeadersCall(headers, "none")>>
                  /\ srcDestroyed => DestroyedByOthers
            /\ (DeliveredAndEnded /\ d.error = "none") =>
                  /\ pc # "rejected"
                  /\ pc = "resolved" => headers = d.headers
                  /\ remDone => out = SliceFrom(Delivered, d.offset)

\* C14 witness: the callback threw, the parse resolved all the same and the
\* remainder was read to its end
C14_Witness ==
    /\ opts.onHeaders = "throws"
    /\ pc = "resolved" /\ field = "json" /\ headers # EmptyHeaders
    /\ observed = <<OnHeadersCall(headers, "none")>>
    /\ ~srcDestroyed
    /\ remDone /\ Len(out) = MaxBody


\* the bytes the parser took for itself when it resolved: the probed marker
\* on the fallback path, the whole frame after a payload
Consumed == IF field = "magic" THEN MAGIC_LENGTH
            ELSE MAGIC_LENGTH + LENGTH_BYTES + pJsonLength

C16_RemaindersFlowAlike ==
    (pc = "resolved" /\ remListener) => RemainderFlowing = "flowing"


\* C17: error propagation.  When the 'error' of the source is emitted after
\* a stream made from it was handed to the caller (the source itself or a
\* relay from parsePrelude, or the stream frameStream returned), that stream
\* fails with the same error; a stream that failed delivers nothing more and
\* never signals a clean end.
C17_RemainderPropagatesError ==
    [][ /\ (Handed /\ srcErrorPending /\ ~srcErrorPending') =>
              remError' = srcError /\ ~remDone'
        /\ remError # "none" =>
              remError' = remError /\ ~remDone' /\ out' = out ]_vars

\* C17 witness: a relay that had already delivered bytes failed with the
\* error of its source
C17_Witness ==
    /\ pc = "resolved" /\ remainder = "relay"
    /\ srcError = "SourceError" /\ remError = "SourceError"
    /\ out # <<>> /\ ~remDone


-----------------------------------------------------------------------------
(* Claims about isFramedStream, checked under SpecProbe                     *)

\* C18: isFramedStream probes without consuming.  Once its promise has
\* resolved and before anything else is called, the source still holds every
\* byte delivered to it, from the first; and when it resolved true and the
\* source has delivered a frame that decodePrelude accepts and has ended, a
\* following parsePrelude does not reject, resolves with decodePrelude's
\* headers, and its remainder yields the bytes from decodePrelude's offset.
C18_ProbeDoesNotConsume ==
    LET d == decodePrelude(Delivered, MaxJsonBytes)
    IN  /\ (probe \in {"true", "false"} /\ pc = "idle" /\ ~srcDestroyed) =>
              srcBuf = Delivered
        /\ (probe = "true" /\ DeliveredAndEnded /\ d.error = "none") =>
              /\ pc # "rejected"
              /\ pc = "resolved" => headers = d.headers
              /\ remDone => out = SliceFrom(Delivered, d.offset)


-----------------------------------------------------------------------------
(* Further claims about parsePreludeTransform, checked under SpecPush       *)

\* C19: the transform honours requirePrelude.  When it was created with
\* requirePrelude and the first 4 bytes written equal no configured marker,
\* the transform has failed with PreludeMagicMismatchError, has emitted no
\* header and has pushed nothing downstream.
C19_TransformHonoursRequirePrelude ==
    (/\ opts.requirePrelude
     /\ written >= MAGIC_LENGTH
     /\ ~MagicsSome(magics, Slice(Written, 0, MAGIC_LENGTH))) =>
        /\ tError = "PreludeMagicMismatchError"
        /\ Emitted = <<>>
        /\ Pushed = <<>>


\* the bytes pushed that the downstream has not read yet
Buffered == Len(Pushed) - downRead

\* C20: push-mode backpressure.  A write that leaves the transform in
\* 'body', pushed bytes and filled the readable side to its high-water mark
\* is not acknowledged; while an acknowledgement is held back no further
\* chunk is taken from the upstream, the writable side does not finish and
\* nothing already pushed changes; and the acknowledgement is released only
\* by a read of the downstream.
C20_PushBackpressure ==
    [][ /\ (/\ written' > written /\ stage' = "body" /\ tError' = "none"
            /\ Len(Pushed') > Len(Pushed) /\ Buffered' >= HighWaterMark) => ackPending'
        /\ ackPending =>
              /\ written' = written /\ tEnded' = tEnded
              /\ Pushed' = Pushed
        /\ (ackPending /\ ~ackPending') => downRead' = Len(Pushed) ]_vars

\* C20 witness: in 'body', with unread bytes at the high-water mark, the
\* acknowledgement of a write is held back while input is still to come
C20_Witness ==
    /\ stage = "body" /\ ackPending
    /\ Buffered >= HighWaterMark
    /\ downRead > 0
    /\ written < Len(input)

-----------------------------------------------------------------------------
(* Claims about encodePrelude, getPreludeSize, decodePrelude and the       *)
(* prelude of frameStream, checked under SpecCodec                         *)

\* decodePrelude was called on what encodePrelude returned, followed by a body
RoundTripOf(body) ==
    /\ encoded.error = "none"
    /\ decoded.error # "notcalled"
    /\ decBuffer = encoded.buffer \o body

\* the configured version
Version == Nullish(encOpts.version, Whole(1))

\* Number.isInteger(v)
IsInteger(v) == v.kind = "number" /\ v.special = "finite" /\ v.tenths % 10 = 0

\* C21: round trip.  For every header encodePrelude accepts, with an integer
\* version, and every body, decodePrelude on the encoded frame followed by
\* the body returns the header with the member v added, the length of the
\* encoded frame as the offset, and the bytes from that offset on are the
\* body.
C21_RoundTrip ==
    \A body \in Bodies :
        (RoundTripOf(body) /\ IsInteger(Version)) =>
            /\ decoded.error = "none"
            /\ decoded.headers = Payload(Version, encHeaders)
            /\ decoded.offset = Len(encoded.buffer)
            /\ SliceFrom(decBuffer, decoded.offset) = body

\* C22: size invariant.  With the same headers and options getPreludeSize
\* throws exactly when encodePrelude throws, and then the same error;
\* otherwise it returns the length of the buffer encodePrelude returns.
C22_SizeMatchesEncode ==
    (encoded.error # "notcalled" /\ sized.error # "notcalled") =>
        /\ sized.error = encoded.error
        /\ encoded.error = "none" => sized.size = Len(encoded.buffer)

\* C22 witness: both returned for a header whose payload has more bytes
\* than characters
C22_Witness ==
    /\ encoded.error = "none" /\ sized.error = "none"
    /\ encHeaders = Obj(<< <<<<CharEAcute>>, Str(<<CharEAcute>>)>> >>)
    /\ sized.size = MAGIC_LENGTH + LENGTH_BYTES + 17

\* the first marker configured by encOpts.magic
FirstMarker == assertMagicList(encOpts.magic).list[1]

\* opts.maxJsonBytes ?? DEFAULT_MAX_JSON_BYTES of the encoding calls
MaxOfCall == IntegerOf(Nullish(encOpts.maxJsonBytes, Whole(DEFAULT_MAX_JSON_BYTES)))

\* buf is marker, 4-byte big-endian length L, then exactly L bytes, 0 < L <= max
WireLayout(buf, marker, max) ==
    /\ Len(buf) >= MAGIC_LENGTH + LENGTH_BYTES
    /\ Slice(buf, 0, MAGIC_LENGTH) = marker
    /\ LET L == readUInt32BE(buf, MAGIC_LENGTH)
       IN  /\ Len(buf) = MAGIC_LENGTH + LENGTH_BYTES + L
           /\ 0 < L /\ L <= max

\* C23: wire layout.  Every buffer encodePrelude returns, and the prelude
\* frameStream writes first to the stream it returns, is the first marker
\* configured, then the 4-byte big-endian length L of the payload, then
\* exactly the L bytes of the serialized payload and nothing after them,
\* with 0 < L <= maxJsonBytes.
C23_WireLayout ==
    /\ encoded.error = "none" =>
          /\ WireLayout(encoded.buffer, FirstMarker, MaxOfCall)
          /\ SliceFrom(encoded.buffer, MAGIC_LENGTH + LENGTH_BYTES)
                 = Utf8Encode(JSONStringify(Payload(Version, encHeaders)))
    /\ pc = "framed" =>
          /\ WireLayout(relayBuf, FirstMarker, MaxOfCall)
          /\ SliceFrom(relayBuf, MAGIC_LENGTH + LENGTH_BYTES)
                 = Utf8Encode(JSONStringify(Payload(Version, encHeaders)))

\* C23 witness: encodePrelude returned a frame whose payload is exactly as
\* long as maxJsonBytes allows, and frameStream wrote the same prelude
C23_Witness ==
    /\ encoded.error = "none" /\ pc = "framed"
    /\ encOpts.maxJsonBytes = Whole(MaxPayloadBytes)
    /\ readUInt32BE(encoded.buffer, MAGIC_LENGTH) = MaxPayloadBytes
    /\ relayBuf = encoded.buffer

\* obj[key] of a parsed object that has the key
Member(obj, key) ==
    obj.members[CHOOSE n \in 1..Len(obj.members) : obj.members[n][1] = key][2]

\* the payload of a frame holds the key v with an integer equal to version
VersionIn(frame, version) ==
    LET parsed == JsonParse(SliceFrom(frame, MAGIC_LENGTH + LENGTH_BYTES))
    IN  /\ parsed.ok /\ isPlainObject(parsed.value)
        /\ HasOwn(parsed.value, KeyV)
        /\ IsInteger(Member(parsed.value, KeyV))
        /\ Member(parsed.value, KeyV) = version

\* C24: version key.  Every frame encodePrelude returns or frameStream
\* writes, for every accepted header and every value of opts.version, holds
\* the key v with an integer value equal to the configured version
\* (1 by default); a header that declares its own key v is rejected.
C24_VersionKey ==
    /\ encoded.error = "none" => VersionIn(encoded.buffer, Version)
    /\ pc = "framed" => VersionIn(relayBuf, Version)
    /\ (isPlainObject(encHeaders) /\ HasOwn(encHeaders, KeyV)) =>
          /\ encoded.error \in {"notcalled", "TypeError: magic must be exactly 4 bytes",
                                "TypeError: prelude must not declare the reserved key v"}
          /\ pc # "framed"

\* the value is, or holds at some depth, undefined, a non-finite number or
\* an object that is no plain object
RECURSIVE NotRepresentable(_)
NotRepresentable(v) ==
    \/ v.kind \in {"undefined", "exotic"}
    \/ v.kind = "number" /\ v.special # "finite"
    \/ v.kind = "array" /\ \E n \in 1..Len(v.items) : NotRepresentable(v.items[n])
    \/ v.kind = "object" /\ \E n \in 1..Len(v.members) : NotRepresentable(v.members[n][2])

\* C25: encode-time validation.  For every header that holds, at the top
\* level or at any depth inside arrays and objects, an undefined entry, a
\* non-finite number or an object that is no plain object, encodePrelude
\* and getPreludeSize throw and frameStream returns no stream.
C25_RejectsNotRepresentable ==
    NotRepresentable(encHeaders) =>
        /\ encoded.error # "none"
        /\ sized.error # "none"
        /\ pc # "framed"

\* the serialized payload of the call
PayloadBytes == Utf8Encode(JSONStringify(Payload(Version, encHeaders)))

\* marker and headers of the call are accepted and the payload is larger
\* than maxJsonBytes
PayloadTooLarge ==
    /\ assertMagicList(encOpts.magic).error = "none"
    /\ validateHeaders(encHeaders) = "ok"
    /\ Len(PayloadBytes) > MaxOfCall

\* frameStream was called: it threw or it returned a stream
FrameCalled == frameError # "none" \/ pc = "framed"

\* C26: payload too large.  When the serialized payload is larger than
\* maxJsonBytes, encodePrelude throws PreludeJsonTooLargeError and returns
\* no buffer, and frameStream throws it before anything exists: no stream
\* is returned, nothing is written, the source is left as it was, neither
\* listened to nor piped.
C26_TooLargeBeforeAnyByte ==
    PayloadTooLarge =>
        /\ encoded.error # "notcalled" =>
              encoded = EncodeFail("PreludeJsonTooLargeError")
        /\ FrameCalled =>
              /\ frameError = "PreludeJsonTooLargeError"
              /\ pc = "idle" /\ remainder = "none" /\ ~Handed
              /\ relayBuf = <<>>
              /\ srcFlowing = "null" /\ ~srcDestroyed

\* C26 witness: both were called with a payload one byte over the limit
C26_Witness ==
    /\ PayloadTooLarge
    /\ Len(PayloadBytes) = MaxOfCall + 1
    /\ encoded.error = "PreludeJsonTooLargeError"
    /\ frameError = "PreludeJsonTooLargeError"

\* decodePrelude was called and its opts.magic was accepted
Decoded == decoded.error # "notcalled" /\ assertMagicList(encOpts.magic).error = "none"

\* the first 4 bytes of the buffer are one of the markers configured
BufferHasMarker ==
    /\ Len(decBuffer) >= MAGIC_LENGTH
    /\ MagicsSome(assertMagicList(encOpts.magic).list, Slice(decBuffer, 0, MAGIC_LENGTH))

\* C28: truncated buffers.  decodePrelude throws PreludeTruncatedError on
\* every buffer of fewer than 8 bytes, whether or not its first bytes are
\* a marker, and on every buffer that starts with a marker and a length L
\* within 0 < L <= maxJsonBytes but has fewer than 8 + L bytes.
C28_DecodeTruncated ==
    Decoded =>
        /\ Len(decBuffer) < MAGIC_LENGTH + LENGTH_BYTES =>
              decoded.error = "PreludeTruncatedError"
        /\ ( /\ Len(decBuffer) >= MAGIC_LENGTH + LENGTH_BYTES
             /\ BufferHasMarker
             /\ readUInt32BE(decBuffer, MAGIC_LENGTH) \in 1..MaxOfCall
             /\ Len(decBuffer) < MAGIC_LENGTH + LENGTH_BYTES
                                     + readUInt32BE(decBuffer, MAGIC_LENGTH) ) =>
              decoded.error = "PreludeTruncatedError"

\* C28 witness: seven bytes that start with no marker were decoded
C28_Witness ==
    /\ Decoded
    /\ Len(decBuffer) = MAGIC_LENGTH + LENGTH_BYTES - 1
    /\ ~BufferHasMarker
    /\ decoded.error = "PreludeTruncatedError"


\* the bytes begin with a configured marker followed by a length field of 0
ZeroLength(bytes) ==
    /\ Len(bytes) >= MAGIC_LENGTH + LENGTH_BYTES
    /\ HasMarker(bytes)
    /\ readUInt32BE(bytes, MAGIC_LENGTH) = 0

\* decodePrelude was called on such a buffer and threw the non-empty error
ZeroLengthDecode == decoded = DecodeFail(NonEmptyError)

\* the transform was written such bytes: it failed with the non-empty
\* error, emitted no 'prelude' and pushed nothing
ZeroLengthTransform ==
    ZeroLength(Written) =>
        tError = NonEmptyError /\ Emitted = <<>> /\ Pushed = <<>>

\* the source delivered such bytes to parsePrelude: it does not resolve,
\* hands out neither headers nor a remainder, rejects with the non-empty
\* error only, and a suspended read has its 'readable' due
ZeroLengthPull ==
    (/\ ZeroLength(Delivered) /\ ~DestroyedByOthers
     /\ pc # "framed" /\ error # "PreludeFlowingModeError") =>
        /\ pc # "resolved"
        /\ headers = NoValue /\ remainder = "none" /\ out = <<>>
        /\ pc = "rejected" => error = NonEmptyError
        /\ pc = "waiting" => readablePending

\* C27 as stated: a length field of 0 behind a configured marker makes
\* decodePrelude, parsePrelude and parsePreludeTransform fail with the
\* 'JSON payload must be non-empty' error and hand out no header, for any
\* maxJsonBytes and any chunking.
C27_ZeroLengthAnyMax ==
    /\ (Decoded /\ ZeroLength(decBuffer)) => ZeroLengthDecode
    /\ ZeroLengthTransform
    /\ ZeroLengthPull

\* C27 amended: the same for any maxJsonBytes that is not below zero; below
\* zero, decodePrelude still fails and returns no header, with
\* PreludeJsonTooLargeError.
C27_ZeroLengthIsError ==
    /\ (Decoded /\ ZeroLength(decBuffer)) =>
           /\ decoded.error # "none" /\ decoded.headers = NoValue
           /\ MaxOfCall >= 0 => ZeroLengthDecode
           /\ MaxOfCall < 0 => decoded = DecodeFail("PreludeJsonTooLargeError")
    /\ ZeroLengthTransform
    /\ ZeroLengthPull

\* C27 witness: the transform was written a zero-length frame behind 'META'
\* and failed, and decodePrelude failed on the same bytes under a limit that
\* is not below zero
C27_Witness ==
    /\ ZeroLength(Written) /\ Slice(input, 0, MAGIC_LENGTH) = META_MAGIC
    /\ tError = NonEmptyError /\ Emitted = <<>>
    /\ Decoded /\ decBuffer = input /\ MaxOfCall >= 0
    /\ ZeroLengthDecode



\* the bytes hold a configured marker, the length of payload p and all of p
CompletePayload(bytes, p) ==
    /\ HasMarker(bytes)
    /\ Len(bytes) >= MAGIC_LENGTH + LENGTH_BYTES + Len(p)
    /\ readUInt32BE(bytes, MAGIC_LENGTH) = Len(p)
    /\ Slice(bytes, MAGIC_LENGTH + LENGTH_BYTES, MAGIC_LENGTH + LENGTH_BYTES + Len(p)) = p

\* the error the claim assigns to payload p
ShapeError(p) ==
    IF p \in MalformedPayloads THEN "PreludeJsonParseError" ELSE "PreludeInvalidTypeError"

\* C29: payload shape.  A complete payload within the limit that is no JSON
\* makes decodePrelude, the transform and parsePrelude fail with
\* PreludeJsonParseError, one that is an array, a string, a number, a
\* boolean or null makes them fail with PreludeInvalidTypeError; no header is
\* returned, emitted or resolved and no body byte is pushed or handed out.
C29_PayloadShape ==
    \A p \in ShapePayloads :
        /\ (Decoded /\ MaxOfCall >= Len(p) /\ CompletePayload(decBuffer, p)) =>
               decoded = DecodeFail(ShapeError(p))
        /\ CompletePayload(Written, p) =>
               tError = ShapeError(p) /\ Emitted = <<>> /\ Pushed = <<>>
        /\ (/\ CompletePayload(Delivered, p) /\ ~DestroyedByOthers
            /\ pc # "framed" /\ error # "PreludeFlowingModeError") =>
               /\ pc # "resolved"
               /\ headers = NoValue /\ remainder = "none" /\ out = <<>>
               /\ pc = "rejected" => error = ShapeError(p)
               /\ pc = "waiting" => readablePending

\* C29 witness: a strict parsePrelude read the whole payload "a" and rejected
\* with PreludeInvalidTypeError, the body byte still in the source, and
\* decodePrelude threw the same on the same bytes
C29_Witness ==
    /\ opts.requirePrelude /\ ~DestroyedByOthers
    /\ CompletePayload(Delivered, <<34, 97, 34>>)
    /\ pc = "rejected" /\ error = "PreludeInvalidTypeError"
    /\ headers = NoValue /\ remainder = "none" /\ srcBuf # <<>>
    /\ Decoded /\ decBuffer = input
    /\ decoded = DecodeFail("PreludeInvalidTypeError")



\* the first 4 bytes
Head4(bytes) == Slice(bytes, 0, MAGIC_LENGTH)

\* behind whatever 4 bytes, the bytes hold the length and the payload of the
\* frame of empty headers
CarriesVersion(bytes) ==
    /\ Len(bytes) >= MAGIC_LENGTH + LENGTH_BYTES + Len(VersionPayload)
    /\ readUInt32BE(bytes, MAGIC_LENGTH) = Len(VersionPayload)
    /\ Slice(bytes, MAGIC_LENGTH + LENGTH_BYTES,
             MAGIC_LENGTH + LENGTH_BYTES + Len(VersionPayload)) = VersionPayload

\* the headers of that frame, and where its body begins
VersionHeaders == Obj(<< <<KeyV, Whole(1)>> >>)
VersionEnd == MAGIC_LENGTH + LENGTH_BYTES + Len(VersionPayload)

\* the markers of the decodePrelude and encoder calls, in the order given
MarkersOfCall == assertMagicList(encOpts.magic).list

\* the first 4 bytes equal some marker of the list, at whatever position
AmongMarkers(ms, bytes) == Head4(bytes) \in { ms[i] : i \in 1..Len(ms) }

\* C30: marker set.  decodePrelude returns the headers of a frame when its
\* first 4 bytes equal some marker of the list given, in whichever order the
\* list is, and throws PreludeMagicMismatchError otherwise; the transform
\* emits the headers of the frame and pushes its body when the first 4 bytes
\* equal either marker, and otherwise passes everything on behind empty
\* headers; parsePrelude resolves with the headers of the frame and hands
\* out its body when they equal either marker, rejecting only when the
\* source ends inside the frame, and otherwise falls back or, in strict
\* mode, rejects with PreludeMagicMismatchError.  encodePrelude
\* writes the first marker of the list, getPreludeSize counts its bytes, and
\* the stream frameStream returned begins with it as long as it has not
\* failed.
C30_MarkerSet ==
    /\ (Decoded /\ CarriesVersion(decBuffer)) =>
           IF AmongMarkers(MarkersOfCall, decBuffer)
           THEN decoded = [error |-> "none", headers |-> VersionHeaders,
                           offset |-> VersionEnd]
           ELSE decoded = DecodeFail("PreludeMagicMismatchError")
    /\ CarriesVersion(Written) =>
           IF AmongMarkers(magics, Written)
           THEN Emitted = <<Prelude(VersionHeaders)>> /\ Pushed = SliceFrom(Written, VersionEnd)
           ELSE Emitted = <<Prelude(EmptyHeaders)>> /\ Pushed = Written
    /\ (CarriesVersion(input) /\ pc # "framed") =>
           /\ pc = "resolved" =>
                  IF AmongMarkers(magics, input)
                  THEN headers = VersionHeaders
                  ELSE headers = EmptyHeaders /\ ~opts.requirePrelude
           /\ (pc = "rejected" /\ ~DestroyedByOthers /\ Len(Delivered) >= MAGIC_LENGTH) =>
                  IF AmongMarkers(magics, input)
                  THEN error = "PreludeTruncatedError" /\ ~CarriesVersion(Delivered)
                  ELSE error = "PreludeMagicMismatchError" /\ opts.requirePrelude
           /\ remDone =>
                  out = IF AmongMarkers(magics, input)
                        THEN SliceFrom(Delivered, VersionEnd) ELSE Delivered
    /\ encoded.error = "none" => Head4(encoded.buffer) = MarkersOfCall[1]
    /\ sized.error = "none" =>
           sized.size = Len(MarkersOfCall[1]) + LENGTH_BYTES + Len(VersionPayload)
    /\ (pc = "framed" /\ remError = "none") =>
           Len(out \o relayBuf) >= MAGIC_LENGTH /\ Head4(out \o relayBuf) = MarkersOfCall[1]

\* C30 witness: with the list ['META', 'PRE1'], decodePrelude returned the
\* headers of a frame behind 'PRE1', the second of the list; parsePrelude
\* resolved with them and the remainder ended; encodePrelude wrote 'META',
\* the first
C30_Witness ==
    /\ MarkersOfCall = <<META_MAGIC, DEFAULT_MAGIC>>
    /\ Head4(input) = DEFAULT_MAGIC /\ CarriesVersion(input)
    /\ Decoded /\ decBuffer = input /\ decoded.headers = VersionHeaders
    /\ pc = "resolved" /\ headers = VersionHeaders /\ remDone
    /\ encoded.error = "none" /\ Head4(encoded.buffer) = META_MAGIC
    /\ sized.error = "none"


\* the prelude frameStream wrote
FramedPrelude == framePrelude(encHeaders, encOpts).buffer

\* the bytes the source handed to the pipe
PipedBytes == SubSeq(input, 1, sent - Len(srcBuf))

\* the bytes the framed stream delivered or holds
FramedBytes == out \o relayBuf

\* C31: frameStream ordering.  As long as the framed stream has not failed,
\* what it delivered and holds is the prelude followed by the source bytes
\* piped so far, in the source's order; while the prelude write is not
\* accepted the source is not piped and the stream holds the prelude alone;
\* a prelude that reached the high-water mark was read whole before the
\* source is piped; the stream ends only after the source ended and handed
\* over every byte; and piping starts only in the call, the write accepted,
\* or on 'drain'.
C31_FrameOrdering ==
    /\ []((pc = "framed" /\ remError = "none") =>
            /\ remainder = "framed" => FramedBytes = FramedPrelude \o PipedBytes
            /\ remainder = "framing" =>
                  /\ FramedBytes = FramedPrelude /\ srcFlowing # "flowing"
                  /\ ~relayEnded /\ ~remDone
            /\ (remainder = "framed" /\ Len(FramedPrelude) >= FrameHighWaterMark) =>
                  Len(out) >= Len(FramedPrelude)
            /\ relayEnded => srcEnded /\ srcBuf = <<>>
            /\ remDone => out = FramedPrelude \o Delivered)
    /\ [][(remainder' = "framed" /\ remainder # "framed") =>
             \/ remainder = "none" /\ Len(FramedPrelude) < FrameHighWaterMark
             \/ remainder = "framing" /\ out = FramedPrelude /\ relayBuf = <<>>]_vars

\* C31 witness: a prelude that reached the high-water mark was read, the
\* source was piped on 'drain', and the caller saw the framed stream end
\* after the prelude and three source bytes
C31_Witness ==
    /\ pc = "framed" /\ remainder = "framed" /\ remError = "none"
    /\ Len(FramedPrelude) >= FrameHighWaterMark
    /\ remDone /\ Len(input) = MaxBody
    /\ out = FramedPrelude \o input


-----------------------------------------------------------------------------
\* C32: parsePrelude called with a source that does not satisfy the
\* readable-stream contract (null, undefined, a non-object, an object lacking
\* pipe, on, readable or destroy) rejects with PreludeInvalidStreamError: the
\* call never resolves, and what it rejects with is that error.
\* parsePrelude does not call validateReadableStream: null, undefined, a
\* number and {} reject with the TypeError of the first member access, and an
\* object lacking only 'readable' is parsed like a Readable.
C32_InvalidSource ==
    (MagicOk /\ validateReadableStream(source) # "ok") =>
        /\ pc # "resolved"
        /\ pc = "rejected" => error = "PreludeInvalidStreamError"


-----------------------------------------------------------------------------
\* C38: option validation is side-effect free. When opts.magic holds a token
\* whose UTF-8 encoding is not 4 bytes long, parsePrelude and isFramedStream
\* reject and parsePreludeTransform throws, each with the TypeError of
\* assertMagic, and none of them touches the source: it is not paused, no
\* byte is read from it, no listener is attached to it, no remainder is made
\* of it, and the step in which a call fails leaves the whole state of the
\* source as it was (a destruction is the work of the source's owner).

\* opts.magic holds a token whose encoding is not 4 bytes long
BadMagic == assertMagicList(magicOpt).error # "none"

\* a step in which one of the three calls settles
CallSettles == pc' # pc \/ probe' # probe \/ tError' # tError

C38_OptionValidation ==
    /\ [](BadMagic =>
            /\ pc \in {"idle", "rejected"} /\ probe \in {"none", "rejected"}
            /\ pc = "rejected" => error = "TypeError: magic must be exactly 4 bytes"
            /\ tError \in {"none", "TypeError: magic must be exactly 4 bytes"}
            /\ stage = "magic" /\ written = 0 /\ events = <<>>
            /\ srcFlowing = "null"
            /\ srcDataListeners = 0 /\ ~readablePending
            /\ Len(srcBuf) = sent
            /\ remainder = "none"
            /\ srcDestroyed => DestroyedByOthers)
    /\ [][(BadMagic /\ CallSettles) => UNCHANGED srcVars]_vars

\* a token of four characters and five bytes: the three calls have failed
\* while the source holds bytes nobody read and is neither paused nor
\* destroyed
C38_Witness ==
    /\ magicOpt = Str(<<CharA, CharB, CharA, CharEAcute>>)
    /\ pc = "rejected" /\ probe = "rejected"
    /\ tError = "TypeError: magic must be exactly 4 bytes"
    /\ sent > 0 /\ Len(srcBuf) = sent
    /\ srcFlowing = "null" /\ ~srcDestroyed


-----------------------------------------------------------------------------
\* C33: the stage of parsePreludeTransform only moves forward, magic ->
\* length -> json -> body, or magic -> body when the first 4 bytes are no
\* marker; no stage is entered a second time, and body is absorbing: once
\* the stage is body, every later chunk is pushed downstream as it is, no
\* error is raised, nothing is buffered and no further 'prelude' is emitted,
\* also when the chunk holds a whole frame.

\* the stages the loop of one transform() call goes through, from st on
RECURSIVE StagePath(_)
StagePathNext(st, nx) ==
    IF nx.error # "none" THEN <<st.stage>>
    ELSE IF nx.stage = "body" THEN <<st.stage, "body">>
    ELSE <<st.stage>> \o StagePath(nx)
StagePath(st) ==
    IF Len(st.buffer) < st.needed THEN <<st.stage>> ELSE StagePathNext(st, SwitchStage(st))

StageMoves == { <<"magic", "length">>, <<"length", "json">>, <<"json", "body">>,
                <<"magic", "body">>, <<"body", "body">> }

\* the steps of a path are forward moves, the jump from magic to body is
\* made for a head that is no marker only, and the path ends in the stage
\* the call leaves, when the call raises no error
PathForward(path, left, failed) ==
    /\ \A n \in 1..(Len(path) - 1) : <<path[n], path[n + 1]>> \in StageMoves
    /\ \A n \in 1..(Len(path) - 1) :
          (path[n] = "magic" /\ path[n + 1] = "body") =>
              ~MagicsSome(magics, Slice(input, 0, MAGIC_LENGTH))
    /\ ~failed => path[Len(path)] = left

\* the 'prelude' events among the events
Preludes(ev) == { n \in DOMAIN ev : ev[n].type = "prelude" }

\* a step in which transform(chunk) is called, and its chunk
WriteStep == written' # written
WrittenChunk == SubSeq(input, written + 1, written')

C33_StageProgression ==
    /\ [](Cardinality(Preludes(events)) <= 1)
    /\ [][WriteStep =>
            /\ PathForward(StagePath([TransformState EXCEPT !.buffer = buffer \o WrittenChunk]),
                           stage', tError' # "none")
            /\ stage = "body" =>
                  /\ stage' = "body" /\ tError' = "none" /\ buffer' = <<>>
                  /\ Concat(events') = Concat(events) \o WrittenChunk
                  /\ Preludes(events') = Preludes(events)]_vars

\* two frames back to back, all written: the second one went downstream
\* byte for byte behind the one 'prelude' of the first
C33_Witness ==
    /\ input = EmptyFrame \o EmptyFrame
    /\ written = Len(input)
    /\ stage = "body" /\ tError = "none"
    /\ events = <<Prelude(Obj(<<>>)), Push(EmptyFrame)>>


-----------------------------------------------------------------------------
\* C34: the accumulation invariant of parsePreludeTransform. After every
\* chunk that was processed without error: in the stages magic, length and
\* json the buffer holds fewer bytes than needed and nothing was pushed or
\* emitted; in the stage body the buffer is empty; and the header bytes
\* consumed, the bytes pushed downstream and the bytes buffered are, in this
\* order, the input written so far.

\* the number of header bytes the stages left behind took from the input
HeaderTaken ==
    CASE stage = "magic" -> 0
      [] stage = "length" -> MAGIC_LENGTH
      [] stage = "json" -> MAGIC_LENGTH + LENGTH_BYTES
      [] OTHER -> IF MagicsSome(magics, Slice(input, 0, MAGIC_LENGTH))
                  THEN MAGIC_LENGTH + LENGTH_BYTES + jsonLength
                  ELSE 0

C34_Accumulation ==
    tError = "none" =>
        /\ stage \in {"magic", "length", "json"} => Len(buffer) < needed /\ events = <<>>
        /\ stage = "body" => buffer = <<>>
        /\ HeaderTaken <= written
        /\ Slice(input, 0, written) = Slice(input, 0, HeaderTaken) \o Concat(events) \o buffer

\* a part of the payload is buffered: 8 header bytes are consumed, nothing
\* is pushed or emitted
C34_Witness ==
    /\ tError = "none" /\ stage = "json"
    /\ written > MAGIC_LENGTH + LENGTH_BYTES
    /\ buffer = Slice(input, MAGIC_LENGTH + LENGTH_BYTES, written)
    /\ events = <<>>


-----------------------------------------------------------------------------
\* C35: bounded wait.  parsePrelude and parsePreludeTransform validate the
\* declared length as soon as the 4 length bytes are there: a length of 0 or
\* above maxJsonBytes fails at the eighth byte, no payload byte is asked
\* for, waited for or taken.  In every state the number of bytes the parser
\* waits for, needed in the transform and the size given to readExactly in
\* parsePrelude, is at most max(4, maxJsonBytes).

LongestWait == IF MaxJsonBytes > MAGIC_LENGTH THEN MaxJsonBytes ELSE MAGIC_LENGTH

\* the length the frame declares, and whether validateJsonLength refuses it
DeclaredLength == readUInt32BE(input, MAGIC_LENGTH)
OutOfBounds == DeclaredLength = 0 \/ DeclaredLength > MaxJsonBytes
LengthErrors == { NonEmptyError, "PreludeJsonTooLargeError" }

\* the bytes parsePrelude has taken out of the source
TakenFromSource == sent - Len(srcBuf)

C35_BoundedWait ==
    /\ needed <= LongestWait
    /\ pc \in {"waiting", "resume"} => FieldSize(field, pJsonLength) <= LongestWait
    /\ OutOfBounds =>
          /\ stage \in {"magic", "length"}
          /\ written >= MAGIC_LENGTH + LENGTH_BYTES => tError \in LengthErrors
          /\ tError # "none" => tError \in LengthErrors /\ events = <<>>
          /\ pc \in {"waiting", "resume"} => field \in {"magic", "length"}
          /\ pc # "resolved"
          /\ TakenFromSource <= MAGIC_LENGTH + LENGTH_BYTES
          /\ (pc # "idle" /\ TakenFromSource = MAGIC_LENGTH + LENGTH_BYTES) =>
                pc = "rejected" /\ error \in LengthErrors
          /\ (pc = "rejected" /\ error \in LengthErrors) =>
                TakenFromSource = MAGIC_LENGTH + LENGTH_BYTES

\* parsePrelude rejected a declared length above the limit after 8 bytes,
\* while the source held bytes behind them
C35_Witness ==
    /\ DeclaredLength = MaxJsonBytes + 1
    /\ pc = "rejected" /\ error = "PreludeJsonTooLargeError"
    /\ TakenFromSource = MAGIC_LENGTH + LENGTH_BYTES
    /\ Len(srcBuf) > 0


-----------------------------------------------------------------------------
\* C36: exact consumption.  In the step that resolves parsePrelude after a
\* payload of L bytes, the parser has taken exactly the first 4 + 4 + L
\* bytes out of the source and no byte of the body; in the step that
\* resolves it on the mismatch fallback, it has taken exactly 4 bytes and
\* gives them back, unshifted into the source or written first into the
\* relay (a source that its owner destroyed before ignores the unshift).
\* readExactly never returns more bytes than it was asked for.

\* the step in which the promise of parsePrelude resolves
Resolves == pc # "resolved" /\ pc' = "resolved"

\* what readExactly(n) called on the source as it stands would return
ReturnsAtMost(n) ==
    Len(readExactly(n, <<>>, srcBuf, srcEndScheduled).data) <= n

C36_ExactConsumption ==
    /\ [](\A n \in 1..(MAGIC_LENGTH + LENGTH_BYTES + MaxJsonBytes) : ReturnsAtMost(n))
    /\ [](Len(collected) <= LongestWait /\ Len(receivedMagic) \in {0, MAGIC_LENGTH})
    /\ [][Resolves =>
            /\ field' = "json" =>
                  /\ MagicsSome(magics, receivedMagic')
                  /\ pJsonLength' = DeclaredLength
                  /\ sent' - Len(srcBuf') = MAGIC_LENGTH + LENGTH_BYTES + pJsonLength'
                  /\ srcBuf' = Slice(input, MAGIC_LENGTH + LENGTH_BYTES + pJsonLength', sent')
                  /\ relayBuf' = <<>>
            /\ field' = "magic" =>
                  /\ receivedMagic' = Slice(input, 0, MAGIC_LENGTH)
                  /\ ~MagicsSome(magics, receivedMagic')
                  /\ remainder' = "source" =>
                        DestroyedByOthers \/ srcBuf' = Slice(input, 0, sent')
                  /\ remainder' = "relay" =>
                        /\ relayBuf' = receivedMagic'
                        /\ srcBuf' = Slice(input, MAGIC_LENGTH, sent')]_vars

\* resolved after a payload of 2 bytes while the source holds a byte of the
\* body: 10 bytes are taken, the body byte is still in the source
C36_Witness ==
    /\ pc = "resolved" /\ field = "json" /\ pJsonLength = 2
    /\ remainder = "relay" /\ relayBuf = <<>> /\ out = <<>>
    /\ sent - Len(srcBuf) = MAGIC_LENGTH + LENGTH_BYTES + 2
    /\ Len(srcBuf) > 0


-----------------------------------------------------------------------------
\* C37: listener hygiene of readExactly.  The listeners for 'readable',
\* 'end' and 'error' are attached together when readExactly suspends and
\* removed together by the one of them that ends the wait: a step that ends
\* a wait leaves none behind for another event to settle it again, the
\* source carries them exactly while a call is suspended, and none is left
\* once parsePrelude or isFramedStream has settled.

\* a step that ends a suspension of readExactly
WaitEnds == pc = "waiting" /\ pc' # "waiting"

C37_ListenerHygiene ==
    /\ [](listeners = IF pc = "waiting" THEN WaitEvents ELSE {})
    /\ []((pc \in {"resolved", "rejected"} \/ (probe \in {"true", "false"} /\ pc = "idle")) =>
              listeners = {})
    /\ [][WaitEnds => listeners = WaitEvents /\ listeners' = {}]_vars
    /\ [][listeners' # listeners =>
             \/ listeners = {} /\ listeners' = WaitEvents
             \/ listeners = WaitEvents /\ listeners' = {}]_vars

\* 'readable' ended a wait, and the 'error' of a source destroyed since is
\* still to be emitted: it finds no listener of the wait
C37_Witness ==
    /\ pc = "resume" /\ srcErrorPending
    /\ listeners = {}

====
